---- MODULE Spec2Model ----
(***************************************************************************)
(* Host-side Aseba driver for Thymio-II robots (thymiodirect).             *)
(*                                                                         *)
(* The module models Connection (src/thymiodirect/connection.py): the      *)
(* per-node mirror RemoteNode, the dispatch of inbound messages by         *)
(* handle_message, the refresh tasks with their liveness check, and the    *)
(* outbound operations, together with the word codec of                    *)
(* src/thymiodirect/message.py.                                            *)
(*                                                                         *)
(* Scheduling.  handle_message is a coroutine: the reader thread creates   *)
(* one task per message (InputThread.run), the event loop starts the tasks *)
(* in arrival order and runs each until it suspends at the await of a user *)
(* callback or ends.  Every action below is one such run: from the start   *)
(* of a handler (or the wake-up of a task) to its next await or its end.   *)
(*                                                                         *)
(* Time.  The liveness check compares current_time - last_msg_time with    *)
(* timeout.  Only the outcome of that comparison matters, so a mirror      *)
(* keeps last_msg_time as Recent (a message was handled at most timeout    *)
(* seconds ago) or Epoch (longer ago; the constructor's 0 is the epoch),   *)
(* and the action TimePasses(n) lets more than timeout seconds go by       *)
(* without a message of node n being handled.                              *)
(***************************************************************************)
EXTENDS Integers, Sequences, FiniteSets, TLC

(***************************************************************************)
(* Bounds of the model.                                                    *)
(***************************************************************************)
MaxDescr == 2       \* descriptor messages of one kind handled per mirror
MaxAwait == 1       \* handlers of one node suspended in a callback at once
MaxRefresh == 2     \* refresh tasks alive at once
MaxSize == 2        \* words of one variable
MaxOffset == 2      \* first offset of a window or of a requested chunk
MaxChunk == 2       \* words of a window or of a requested chunk
MaxBytecode == 600  \* words of a bytecode given to set_bytecode
MaxFrames == 2      \* frames the robot puts on the stream
MaxSends == 2       \* calls of send that reach the output lock

Nodes == {1, 2}

(***************************************************************************)
(* Program constants.                                                      *)
(***************************************************************************)
ID_FIRST_ASEBA_ID == 32768
ID_DESCRIPTION == 36864
ID_NAMED_VARIABLE_DESCRIPTION == 36865
ID_LOCAL_EVENT_DESCRIPTION == 36866
ID_NATIVE_FUNCTION_DESCRIPTION == 36867
ID_VARIABLES == 36869
ID_NODE_PRESENT == 36876
ID_DEVICE_INFO == 36877
ID_SET_BYTECODE == 40961
ID_GET_VARIABLES == 40971
ID_SET_VARIABLES == 40972
ID_GET_NODE_DESCRIPTION == 40976
ID_LIST_NODES == 40977
ID_GET_DEVICE_INFO == 40978
PROTOCOL_VERSION == 5
DEVICE_INFO_UUID == 1
DEVICE_INFO_NAME == 2
DEVICE_INFO_THYMIO2_RF_SETTINGS == 3
host_node_id == 1

\* Python's None in an integer field.
None == -1
\* The rate given to set_refreshing_rate (seconds between two refreshes).
Rate == 1
\* RemoteNode.last_msg_time against the clock: see "Time" above.
Epoch == 0
Recent == 1

Min(a, b) == IF a < b THEN a ELSE b

(***************************************************************************)
(* Word codec (message.py).                                                *)
(***************************************************************************)
\* bytes([word & 0xff, (word & 0xff00) // 256])
uint16_to_bytes(word) == << word % 256, (word \div 256) % 256 >>

\* bytes += uint16_to_bytes(word) for word in a: byte i is a byte of word
\* (i + 1) div 2, the low one for odd i
uint16array_to_bytes(a) ==
    [i \in 1..(2 * Len(a)) |-> uint16_to_bytes(a[(i + 1) \div 2])[2 - (i % 2)]]

\* payload[offset] + 256 * payload[offset + 1]; offset counts from 0
get_uint16(payload, offset) == payload[offset + 1] + 256 * payload[offset + 2]

\* The words Message.decode reads from a payload from byte `first` on:
\* for i in range(first, len(payload), 2): get_uint16(offset)
decode_words(payload, first) ==
    [i \in 1..((Len(payload) - first + 1) \div 2) |->
        get_uint16(payload, first + 2 * (i - 1))]

Message(id, source_node, payload) ==
    [id |-> id, source_node |-> source_node, payload |-> payload]

\* a frame with the id before the source
serialize_id_before_source(msg) ==
    uint16_to_bytes(Len(msg.payload))
    \o uint16_to_bytes(msg.id)
    \o uint16_to_bytes(msg.source_node)
    \o msg.payload

\* uint16_to_bytes(len(payload)) + uint16_to_bytes(source_node)
\* + uint16_to_bytes(id) + payload
serialize(msg) ==
    uint16_to_bytes(Len(msg.payload))
    \o uint16_to_bytes(msg.source_node)
    \o uint16_to_bytes(msg.id)
    \o msg.payload

(***************************************************************************)
(* Python list slices: l[a:b] and l[a:b] = data, for 0 <= a <= b.          *)
(***************************************************************************)
PySlice(l, a, b) == SubSeq(l, Min(a, Len(l)) + 1, Min(b, Len(l)))

\* l[a:] = data, which drops what l held from b on
PySliceAssign_to_end(l, a, b, data) == SubSeq(l, 1, Min(a, Len(l))) \o data

PySliceAssign(l, a, b, data) ==
    SubSeq(l, 1, Min(a, Len(l))) \o data \o SubSeq(l, Min(b, Len(l)) + 1, Len(l))

(***************************************************************************)
(* RemoteNode: the mirror of one robot.                                    *)
(***************************************************************************)
RemoteNode(node_id, version) ==
    [ node_id |-> node_id,
      version |-> version,
      device_name |-> None,
      device_uuid |-> None,
      rf |-> None,                   \* (rf_network_id, rf_node_id, rf_channel)
      last_msg_time |-> Epoch,
      handshake_done |-> FALSE,
      num_named_var |-> None,
      num_local_events |-> None,
      num_native_fun |-> None,
      var_total_size |-> 0,
      named_variables |-> << >>,
      var_offset |-> << >>,          \* dict, indexed by name
      var_size |-> << >>,            \* dict, indexed by name
      var_data |-> << >>,
      expected_var_end |-> 0,
      var_received |-> FALSE,
      local_events |-> << >>,
      native_functions |-> << >> ]

\* d[k] = v on a Python dict
DictSet(d, k, v) == [x \in (DOMAIN d) \cup {k} |-> IF x = k THEN v ELSE d[x]]

add_var(node, name, size) ==
    [node EXCEPT !.named_variables = Append(@, name),
                 !.var_offset = DictSet(@, name, node.var_total_size),
                 !.var_size = DictSet(@, name, size),
                 !.var_total_size = @ + size]

reset_var_data(node) ==
    [node EXCEPT !.var_data = [i \in 1..node.var_total_size |-> 0]]

\* The callers check `name in var_offset` (KeyError otherwise).
\* data_span_for_variables: the loop visits the names of the set in the
\* order `order`.
Max(a, b) == IF a > b THEN a ELSE b

\* The span before the first name: offset = None, length = 0.
NoSpan == [raised |-> FALSE, offset |-> None, length |-> 0]

\* a visit that moves the offset down and forgets what lay above it
data_span_visit_no_extend(node, span, name) ==
    IF span.raised THEN span
    ELSE IF name \notin DOMAIN node.var_offset
    THEN [span EXCEPT !.raised = TRUE]
    ELSE IF span.offset = None
    THEN [span EXCEPT !.offset = node.var_offset[name], !.length = node.var_size[name]]
    ELSE IF node.var_offset[name] < span.offset
    THEN [span EXCEPT !.offset = node.var_offset[name],
                      !.length = Max(span.length, node.var_size[name])]
    ELSE [span EXCEPT !.length = Max(span.length,
                        node.var_offset[name] + node.var_size[name] - span.offset)]

\* The body of the loop for one name; raise KeyError(name) ends the call.
data_span_visit(node, span, name) ==
    IF span.raised THEN span
    ELSE IF name \notin DOMAIN node.var_offset
    THEN [span EXCEPT !.raised = TRUE]
    ELSE IF span.offset = None
    THEN [span EXCEPT !.offset = node.var_offset[name], !.length = node.var_size[name]]
    ELSE IF node.var_offset[name] < span.offset
    THEN [span EXCEPT !.offset = node.var_offset[name],
                      !.length = Max(span.length + (span.offset - node.var_offset[name]),
                                     node.var_size[name])]
    ELSE [span EXCEPT !.length = Max(span.length,
                        node.var_offset[name] + node.var_size[name] - span.offset)]

\* for name in variables, the names coming in the order `order`
RECURSIVE data_span_for_variables(_, _)
data_span_for_variables(node, order) ==
    IF order = << >>
    THEN NoSpan
    ELSE data_span_visit(node,
                         data_span_for_variables(node, SubSeq(order, 1, Len(order) - 1)),
                         order[Len(order)])

get_var_array(node, name) ==
    PySlice(node.var_data, node.var_offset[name],
            node.var_offset[name] + node.var_size[name])

get_var(node, name, index) == node.var_data[node.var_offset[name] + index + 1]

\* var_data[var_offset[name] + index] = val; IndexError when out of range
set_var_ok(node, name, index) ==
    /\ name \in DOMAIN node.var_offset
    /\ node.var_offset[name] + index < Len(node.var_data)

set_var(node, name, val, index) ==
    [node EXCEPT !.var_data[node.var_offset[name] + index + 1] = val]

set_var_array(node, name, val) ==
    [node EXCEPT !.var_data =
        PySliceAssign(@, node.var_offset[name],
                      node.var_offset[name] + Len(val), val)]

\* var_received = offset + len(data) > expected_var_end
set_var_data_beyond(node, offset, data) ==
    [node EXCEPT !.var_data = PySliceAssign(@, offset, offset + Len(data), data),
                 !.var_received = (offset + Len(data) > node.expected_var_end)]

set_var_data(node, offset, data) ==
    [node EXCEPT !.var_data = PySliceAssign(@, offset, offset + Len(data), data),
                 !.var_received = (offset + Len(data) >= node.expected_var_end)]

(***************************************************************************)
(* Outbound operations (Connection.send and its callers).  Each yields the *)
(* messages it writes to the transport, in order.                          *)
(***************************************************************************)
send(msg) == << msg >>

list_nodes ==
    send(Message(ID_LIST_NODES, host_node_id,
                 uint16array_to_bytes(<< PROTOCOL_VERSION >>)))

get_node_description(target_node_id) ==
    send(Message(ID_GET_NODE_DESCRIPTION, host_node_id,
                 uint16array_to_bytes(<< target_node_id, PROTOCOL_VERSION >>)))

get_device_info_one(target_node_id, info) ==
    send(Message(ID_GET_DEVICE_INFO, host_node_id,
                 uint16array_to_bytes(<< target_node_id, info >>)))

\* a request for the name alone
get_device_info_name_only(target_node_id) ==
    get_device_info_one(target_node_id, DEVICE_INFO_NAME)

\* info is None: all three
get_device_info(target_node_id) ==
    get_device_info_one(target_node_id, DEVICE_INFO_NAME)
    \o get_device_info_one(target_node_id, DEVICE_INFO_THYMIO2_RF_SETTINGS)
    \o get_device_info_one(target_node_id, DEVICE_INFO_UUID)

get_variables_msg(target_node_id, chunk_offset, chunk_length) ==
    send(Message(ID_GET_VARIABLES, host_node_id,
                 uint16array_to_bytes(<< target_node_id, chunk_offset, chunk_length >>)))

\* a payload of the target and the chunk, without the offset
set_variables_no_offset(target_node_id, chunk_offset, chunk) ==
    send(Message(ID_SET_VARIABLES, host_node_id,
                 uint16array_to_bytes(<< target_node_id >> \o chunk)))

set_variables(target_node_id, chunk_offset, chunk) ==
    send(Message(ID_SET_VARIABLES, host_node_id,
                 uint16array_to_bytes(<< target_node_id, chunk_offset >> \o chunk)))

\* min(size - i, 256)
BytecodeChunk == 256

\* one SET_BYTECODE message whose address is that of the whole bytecode
set_bytecode_send_at_address(target_node_id, bytecode, address, i) ==
    send(Message(ID_SET_BYTECODE, host_node_id,
                 uint16array_to_bytes(
                    << target_node_id, address >>
                    \o PySlice(bytecode, i, i + Min(Len(bytecode) - i, BytecodeChunk)))))

\* One iteration of the loop of set_bytecode: the message of the chunk at i.
set_bytecode_send(target_node_id, bytecode, address, i) ==
    send(Message(ID_SET_BYTECODE, host_node_id,
                 uint16array_to_bytes(
                    << target_node_id, address + i >>
                    \o PySlice(bytecode, i, i + Min(Len(bytecode) - i, BytecodeChunk)))))

(***************************************************************************)
(* State.                                                                  *)
(***************************************************************************)
VARIABLES
    remote_nodes,        \* Connection.remote_nodes: dict node id -> RemoteNode
    remote_node_set,     \* Connection.remote_node_set: ids with handshake done
    auto_handshake,      \* Connection.auto_handshake
    refreshing_timeout,  \* Connection.refreshing_timeout: None or a rate
    awaiting,            \* per node: handle_message tasks suspended in a callback
    refresh_tasks,       \* the do_refresh tasks, by slot
    api,                 \* a caller of set_var / set_var_array on a foreign thread
    io_written,          \* what the last step wrote to the transport
    handled,             \* the source of the message the last step handled, or 0
    fired,               \* the user callback the last step invoked
    life,                \* per node, history of the current mirror
    output_lock,         \* Connection.output_lock: Unlocked or the thread holding it
    senders,             \* per thread, its call of Connection.send
    wire,                \* the bytes io.write has put on the transport
    send_log,            \* the calls of send in the order they took the lock
    comm_error,          \* Connection.comm_error: None or an error
    on_comm_error,       \* Connection.on_comm_error is set
    stream,              \* the bytes on their way to io.read
    reader,              \* the InputThread
    received,            \* the messages the InputThread passed to handle_msg
    framed,              \* the messages whose frames were put on the stream
    transit,             \* the bytes a robot sent that have not reached the host
    terminating,         \* Connection.terminating
    loop_stopped,        \* loop.stop() was called: run_forever returns
    callback_errors,     \* the sources of the handlers a callback's exception ended
    asm,                 \* a call of Assembler.assemble
    refreshing_data_coverage,  \* Connection.refreshing_data_coverage
    refreshing_data_span,      \* Connection.refreshing_data_span
    input_lock,                \* Connection.input_lock: Unlocked or the flow that took it
    flows                      \* where each flow of control stands between its locks

session_vars == << remote_nodes, remote_node_set, auto_handshake, refreshing_timeout,
                   awaiting, refresh_tasks, api, life >>

send_vars == << output_lock, senders, wire, send_log, comm_error, on_comm_error >>

reader_vars == << stream, reader, received, framed, transit >>

loop_vars == << terminating, loop_stopped, callback_errors >>

vars == << remote_nodes, remote_node_set, auto_handshake, refreshing_timeout,
           awaiting, refresh_tasks, api, io_written, handled, fired, life,
           output_lock, senders, wire, send_log, comm_error, on_comm_error,
           stream, reader, received, framed, transit, terminating, loop_stopped,
           callback_errors, asm, refreshing_data_coverage,
           refreshing_data_span, input_lock, flows >>

NoCallback == [cb |-> "none", node |-> 0, arg |-> FALSE]
Callback(cb, node, arg) == [cb |-> cb, node |-> node, arg |-> arg]

NoTask == [pc |-> "none", source_node |-> 0, cur |-> 0, rest |-> {}]
\* index is None for set_var_array
NoApi == [pc |-> "idle", node |-> 0, name |-> "", val |-> << >>, index |-> None]

\* History of one mirror: how often on_connection_changed(id, True) and
\* on_connection_changed(id, False) were fired since it was created, whether
\* the node description was requested at its creation, the end (offset +
\* length) of the chunk the most recent GET_VARIABLES asked for (None: none was
\* sent), the word last written at each offset of var_data since its last
\* reset, and whether a mirror of the same node was deleted before.
NewLife(requested, removed) ==
    [connected |-> 0, disconnected |-> 0, requested |-> requested,
     polled |-> None, written |-> << >>, removed |-> removed]

\* The words `data` are written at offset, offset + 1, ...
Overwrite(written, offset, data) ==
    [i \in (DOMAIN written) \cup (offset .. (offset + Len(data) - 1)) |->
        IF offset <= i /\ i < offset + Len(data)
        THEN data[i - offset + 1]
        ELSE written[i]]

\* self.remote_nodes[source_node].last_msg_time = time.time(); the KeyError of
\* an unknown source ends the handler, which has nothing left to do.
Touch(nodes, source_node) ==
    IF source_node \in DOMAIN nodes
    THEN [nodes EXCEPT ![source_node].last_msg_time = Recent]
    ELSE nodes

DictDel(d, k) == [x \in (DOMAIN d) \ {k} |-> d[x]]

\* threading.Lock(): not held
Unlocked == "unlocked"

\* The threads that call send: the thread of the application and the thread
\* of the event loop, which runs the handlers and the refresh tasks.
Threads == {"user", "loop"}

\* A thread outside send.  pos counts the bytes io.write has written, error
\* is the exception io.write raised, calls counts the calls of on_comm_error
\* made by the call of send, result tells how the last call ended.
NoSender ==
    [pc |-> "idle", msg |-> Message(0, 0, << >>), pos |-> 0, error |-> None,
     calls |-> 0, result |-> "none"]

\* What a step reports: the source of the message it handled, the callback it
\* invoked and the messages it wrote.
Report(source_node, cb, sent) ==
    /\ handled' = source_node
    /\ fired' = cb
    /\ io_written' = sent
    /\ UNCHANGED << asm, refreshing_data_coverage, input_lock, flows >>

Ghost(source_node, cb, sent) ==
    /\ Report(source_node, cb, sent)
    /\ UNCHANGED refreshing_data_span

\* InputThread.__init__: running, about to read the first header word of a
\* message.  words are the header words read_message has read, half is the
\* byte read_uint16 holds while it reads the second one.
NewInputThread ==
    [pc |-> "header", running |-> TRUE, words |-> << >>, half |-> None,
     comm_error |-> None]

\* A step of the session engine, whose writes succeed at once.
Step(cb, sent) ==
    /\ Ghost(0, cb, sent)
    /\ UNCHANGED send_vars
    /\ UNCHANGED reader_vars
    /\ UNCHANGED loop_vars

\* A step of do_refresh that ends at the head of its loop: while not
\* self.terminating goes on to the sleep, or else self.loop.stop().
StepWhile(sent) ==
    /\ Ghost(0, NoCallback, sent)
    /\ loop_stopped' = (loop_stopped \/ terminating)
    /\ UNCHANGED << terminating, callback_errors >>
    /\ UNCHANGED send_vars
    /\ UNCHANGED reader_vars

\* The steps of do_refresh, which leave `span` in refreshing_data_span.
RefreshStep(cb, sent, span) ==
    /\ Report(0, cb, sent)
    /\ refreshing_data_span' = span
    /\ UNCHANGED send_vars
    /\ UNCHANGED reader_vars
    /\ UNCHANGED loop_vars

RefreshStepWhile(sent, span) ==
    /\ Report(0, NoCallback, sent)
    /\ refreshing_data_span' = span
    /\ loop_stopped' = (loop_stopped \/ terminating)
    /\ UNCHANGED << terminating, callback_errors >>
    /\ UNCHANGED send_vars
    /\ UNCHANGED reader_vars

\* A step that starts the handling of a message of source_node.
HandlerStep(source_node, cb, sent) ==
    /\ Ghost(source_node, cb, sent)
    /\ UNCHANGED send_vars
    /\ UNCHANGED reader_vars
    /\ UNCHANGED loop_vars

\* refreshing_data_coverage = None, or a set of names in the order a loop
\* over it visits them; refreshing_data_span = None, or (offset, length).
NoCoverage == [set |-> FALSE, order |-> << >>]
Coverage(order) == [set |-> TRUE, order |-> order]
NoDataSpan == [cached |-> FALSE, offset |-> None, length |-> 0]
DataSpan(offset, length) == [cached |-> TRUE, offset |-> offset, length |-> length]

\* The flows of control that take the input lock: a handler and a refresh
\* task, both coroutines of the event loop, and a call of the API on the
\* thread of the application.  A flow stands before step k of its path; a
\* callback it awaits may be in a call of the API, before step j of `inner`.
Flows == {"handler", "refresh", "user"}
NoFlow == [path |-> << >>, k |-> 1, inner |-> << >>, j |-> 1]

\* No Assembler was constructed.  The fields are the locals of assemble:
\* phase, i (the lines of this pass already read), bytecode, defs, label
\* ("" is None); error is the exception that left assemble.
NoAssembler ==
    [ pc |-> "idle", src |-> << >>, phase |-> 0, i |-> 0, bytecode |-> << >>,
      defs |-> << >>, label |-> "", error |-> "" ]

Init ==
    /\ remote_nodes = << >>
    /\ remote_node_set = {}
    /\ auto_handshake = FALSE
    /\ refreshing_timeout \in {None, Rate}
    /\ awaiting = [n \in Nodes |-> 0]
    /\ refresh_tasks = [t \in 1..MaxRefresh |-> NoTask]
    /\ api = NoApi
    /\ io_written = << >>
    /\ handled = 0
    /\ fired = NoCallback
    /\ life = [n \in Nodes |-> NewLife(FALSE, FALSE)]
    /\ output_lock = Unlocked
    /\ senders = [th \in Threads |-> NoSender]
    /\ wire = << >>
    /\ send_log = << >>
    /\ comm_error = None
    /\ on_comm_error = FALSE
    /\ stream = << >>
    /\ reader = NewInputThread
    /\ received = << >>
    /\ framed = << >>
    /\ transit = << >>
    /\ terminating = FALSE
    /\ loop_stopped = FALSE
    /\ callback_errors = {}
    /\ asm = NoAssembler
    /\ refreshing_data_coverage = NoCoverage
    /\ refreshing_data_span = NoDataSpan
    /\ input_lock = Unlocked
    /\ flows = [f \in Flows |-> NoFlow]

(***************************************************************************)
(* handle_message, one action per message id.  A handler that reaches the  *)
(* await of a callback is counted in `awaiting` and goes on in             *)
(* handle_message_resume once the callback has returned.                   *)
(***************************************************************************)
handshake ==
    /\ auto_handshake' = TRUE
    /\ Step(NoCallback, list_nodes)
    /\ UNCHANGED << remote_nodes, remote_node_set, refreshing_timeout, awaiting,
                    refresh_tasks, api, life >>

set_refreshing_rate(rate) ==
    /\ refreshing_timeout' = rate
    /\ Step(NoCallback, << >>)
    /\ UNCHANGED << remote_nodes, remote_node_set, auto_handshake, awaiting,
                    refresh_tasks, api, life >>

handle_NODE_PRESENT(source_node, version) ==
    LET unknown == source_node \notin DOMAIN remote_nodes
        will_do_handshake == unknown /\ auto_handshake
        nodes1 == IF unknown
                  THEN DictSet(remote_nodes, source_node,
                               RemoteNode(source_node, version))
                  ELSE remote_nodes
        sent == IF will_do_handshake
                THEN (IF version >= 6 THEN get_device_info(source_node) ELSE << >>)
                     \o get_node_description(source_node)
                ELSE << >>
    IN  /\ remote_nodes' = Touch(nodes1, source_node)
        /\ life' = IF unknown
                   THEN [life EXCEPT ![source_node] =
                            NewLife(will_do_handshake, life[source_node].removed)]
                   ELSE life
        /\ HandlerStep(source_node, NoCallback, sent)
        /\ UNCHANGED << remote_node_set, auto_handshake, refreshing_timeout,
                        awaiting, refresh_tasks, api >>

\* A handler that fails on self.remote_nodes[source_node] (KeyError) before it
\* changed anything.
handler_KeyError(source_node) ==
    /\ HandlerStep(source_node, NoCallback, << >>)
    /\ UNCHANGED << remote_nodes, remote_node_set, auto_handshake,
                    refreshing_timeout, awaiting, refresh_tasks, api, life >>

handle_DEVICE_INFO(source_node, device_info, value) ==
    IF source_node \notin DOMAIN remote_nodes
    THEN handler_KeyError(source_node)
    ELSE
    LET node == remote_nodes[source_node]
        node1 == CASE device_info = DEVICE_INFO_NAME ->
                        [node EXCEPT !.device_name = value]
                   [] device_info = DEVICE_INFO_UUID ->
                        [node EXCEPT !.device_uuid = value]
                   [] device_info = DEVICE_INFO_THYMIO2_RF_SETTINGS ->
                        [node EXCEPT !.rf = value]
                   [] OTHER -> node
    IN  /\ remote_nodes' = Touch([remote_nodes EXCEPT ![source_node] = node1],
                                 source_node)
        /\ HandlerStep(source_node, NoCallback, << >>)
        /\ UNCHANGED << remote_node_set, auto_handshake, refreshing_timeout,
                        awaiting, refresh_tasks, api, life >>

Described(node) == node.num_named_var # None

handle_DESCRIPTION(source_node, num_named_var, num_local_events, num_native_fun) ==
    IF source_node \notin DOMAIN remote_nodes
    THEN handler_KeyError(source_node)
    ELSE
    LET node == remote_nodes[source_node]
        node1 == [node EXCEPT !.num_named_var = num_named_var,
                              !.num_local_events = num_local_events,
                              !.num_native_fun = num_native_fun]
    IN  /\ remote_nodes' = Touch([remote_nodes EXCEPT ![source_node] = node1],
                                 source_node)
        /\ HandlerStep(source_node, NoCallback, << >>)
        /\ UNCHANGED << remote_node_set, auto_handshake, refreshing_timeout,
                        awaiting, refresh_tasks, api, life >>

FreeSlots == {t \in 1..MaxRefresh : refresh_tasks[t].pc = "none"}
LowestFreeSlot == CHOOSE t \in FreeSlots : \A u \in FreeSlots : t <= u

\* self.loop.create_task(do_refresh()): the task starts at its first sleep
create_task_do_refresh(source_node) ==
    [refresh_tasks EXCEPT ![LowestFreeSlot] =
        [NoTask EXCEPT !.pc = "sleep", !.source_node = source_node]]

handle_NAMED_VARIABLE_DESCRIPTION(source_node, var_name, var_size) ==
    IF source_node \notin DOMAIN remote_nodes
    THEN handler_KeyError(source_node)
    ELSE
    LET node == remote_nodes[source_node]
        node1 == add_var(node, var_name, var_size)
        \* len(named_variables) >= None raises TypeError
        type_error == ~Described(node)
        complete == ~type_error
                    /\ Len(node1.named_variables) >= node1.num_named_var
        node2 == IF complete THEN reset_var_data(node1) ELSE node1
    IN  /\ Len(node.named_variables) < MaxDescr
        /\ complete => FreeSlots # {}
        /\ remote_nodes' =
              IF type_error
              THEN [remote_nodes EXCEPT ![source_node] = node1]
              ELSE Touch([remote_nodes EXCEPT ![source_node] = node2], source_node)
        /\ refresh_tasks' = IF complete THEN create_task_do_refresh(source_node)
                            ELSE refresh_tasks
        /\ life' = IF complete THEN [life EXCEPT ![source_node].written = << >>]
                   ELSE life
        /\ HandlerStep(source_node, NoCallback, << >>)
        /\ UNCHANGED << remote_node_set, auto_handshake, refreshing_timeout,
                        awaiting, api >>

handle_LOCAL_EVENT_DESCRIPTION(source_node, event_name) ==
    IF source_node \notin DOMAIN remote_nodes
    THEN handler_KeyError(source_node)
    ELSE
    LET node == remote_nodes[source_node]
        node1 == [node EXCEPT !.local_events = Append(@, event_name)]
    IN  /\ Len(node.local_events) < MaxDescr
        /\ remote_nodes' = Touch([remote_nodes EXCEPT ![source_node] = node1],
                                 source_node)
        /\ HandlerStep(source_node, NoCallback, << >>)
        /\ UNCHANGED << remote_node_set, auto_handshake, refreshing_timeout,
                        awaiting, refresh_tasks, api, life >>

handle_NATIVE_FUNCTION_DESCRIPTION(source_node, fun_name) ==
    IF source_node \notin DOMAIN remote_nodes
    THEN handler_KeyError(source_node)
    ELSE
    LET node == remote_nodes[source_node]
        node1 == [node EXCEPT !.native_functions = Append(@, fun_name)]
        \* len(native_functions) >= None raises TypeError
        type_error == node.num_native_fun = None
        complete == ~type_error
                    /\ Len(node1.native_functions) >= node1.num_native_fun
        node2 == IF complete THEN [node1 EXCEPT !.handshake_done = TRUE] ELSE node1
        promote == complete /\ source_node \notin remote_node_set
    IN  /\ Len(node.native_functions) < MaxDescr
        /\ promote => awaiting[source_node] < MaxAwait
        /\ remote_nodes' =
              IF type_error \/ promote
              THEN [remote_nodes EXCEPT ![source_node] = node2]
              ELSE Touch([remote_nodes EXCEPT ![source_node] = node2], source_node)
        /\ remote_node_set' = IF promote THEN remote_node_set \cup {source_node}
                              ELSE remote_node_set
        /\ awaiting' = IF promote THEN [awaiting EXCEPT ![source_node] = @ + 1]
                       ELSE awaiting
        /\ life' = [life EXCEPT ![source_node].connected =
                                    IF promote THEN @ + 1 ELSE @]
        /\ HandlerStep(source_node, IF promote THEN Callback("on_connection_changed", source_node, TRUE)
                ELSE NoCallback,
                << >>)
        /\ UNCHANGED << auto_handshake, refreshing_timeout, refresh_tasks, api >>

handle_VARIABLES(source_node, var_offset, var_data) ==
    IF source_node \notin DOMAIN remote_nodes
    THEN handler_KeyError(source_node)
    ELSE
    LET node1 == set_var_data(remote_nodes[source_node], var_offset, var_data)
        notify == node1.var_received
    IN  /\ notify => awaiting[source_node] < MaxAwait
        /\ remote_nodes' =
              IF notify
              THEN [remote_nodes EXCEPT ![source_node] = node1]
              ELSE Touch([remote_nodes EXCEPT ![source_node] = node1], source_node)
        /\ awaiting' = IF notify THEN [awaiting EXCEPT ![source_node] = @ + 1]
                       ELSE awaiting
        /\ HandlerStep(source_node, IF notify THEN Callback("on_variables_received", source_node, TRUE)
                ELSE NoCallback,
                << >>)
        /\ life' = [life EXCEPT ![source_node].written =
                                    Overwrite(@, var_offset, var_data)]
        /\ UNCHANGED << remote_node_set, auto_handshake, refreshing_timeout,
                        refresh_tasks, api >>

\* msg.id < ID_FIRST_ASEBA_ID: the callback comes first, whoever the source is
handle_user_event(source_node) ==
    /\ awaiting[source_node] < MaxAwait
    /\ awaiting' = [awaiting EXCEPT ![source_node] = @ + 1]
    /\ HandlerStep(source_node, Callback("on_user_event", source_node, TRUE), << >>)
    /\ UNCHANGED << remote_nodes, remote_node_set, auto_handshake,
                    refreshing_timeout, refresh_tasks, api, life >>

\* msg.id == ID_EXECUTION_STATE_CHANGED: as for a user event
handle_EXECUTION_STATE_CHANGED(source_node) ==
    /\ awaiting[source_node] < MaxAwait
    /\ awaiting' = [awaiting EXCEPT ![source_node] = @ + 1]
    /\ HandlerStep(source_node,
                   Callback("on_execution_state_changed", source_node, TRUE), << >>)
    /\ UNCHANGED << remote_nodes, remote_node_set, auto_handshake,
                    refreshing_timeout, refresh_tasks, api, life >>

\* an event loop that an exception of a task stops
Task_exception_stops_loop(stopped) == TRUE

\* The exception of a coroutine started by asyncio.ensure_future ends its
\* task, which keeps it; the event loop goes on as it was.
Task_exception(stopped) == stopped

\* The callback a handler of source_node awaits raises: the exception ends
\* the handler before line 509, on the thread of the event loop.
callback_raises(source_node) ==
    /\ awaiting[source_node] > 0
    /\ awaiting' = [awaiting EXCEPT ![source_node] = @ - 1]
    /\ callback_errors' = callback_errors \cup {source_node}
    /\ loop_stopped' = Task_exception(loop_stopped)
    /\ Ghost(0, NoCallback, << >>)
    /\ UNCHANGED << remote_nodes, remote_node_set, auto_handshake,
                    refreshing_timeout, refresh_tasks, api, life >>
    /\ UNCHANGED << send_vars, reader_vars, terminating >>

\* The callback has returned: the handler ends with line 509.
handle_message_resume(source_node) ==
    /\ awaiting[source_node] > 0
    /\ awaiting' = [awaiting EXCEPT ![source_node] = @ - 1]
    /\ remote_nodes' = Touch(remote_nodes, source_node)
    /\ Step(NoCallback, << >>)
    /\ UNCHANGED << remote_node_set, auto_handshake, refreshing_timeout,
                    refresh_tasks, api, life >>

\* More than timeout seconds go by without a message of node_id being handled.
TimePasses(node_id) ==
    /\ node_id \in DOMAIN remote_nodes
    /\ remote_nodes[node_id].last_msg_time = Recent
    /\ remote_nodes' = [remote_nodes EXCEPT ![node_id].last_msg_time = Epoch]
    /\ Step(NoCallback, << >>)
    /\ UNCHANGED << remote_node_set, auto_handshake, refreshing_timeout,
                    awaiting, refresh_tasks, api, life >>

(***************************************************************************)
(* do_refresh, the task started when a variable catalog completes.         *)
(* refresh_wake runs from the end of a sleep to the first disconnect       *)
(* callback or to the next sleep; refresh_resume from the return of a      *)
(* disconnect callback to the next one or to the next sleep.  An exception *)
(* (KeyError) ends the task.                                               *)
(***************************************************************************)
Sleeping(source_node) ==
    [pc |-> "sleep", source_node |-> source_node, cur |-> 0, rest |-> {}]

Disconnecting(source_node, node_id, rest) ==
    [pc |-> "await", source_node |-> source_node, cur |-> node_id, rest |-> rest]

\* while not self.terminating, reached by task t at the end of the body of
\* its loop: the task sleeps again, or has stopped the event loop and ended.
WhileNotTerminating(t, source_node) ==
    [refresh_tasks EXCEPT ![t] = IF terminating THEN NoTask
                                 ELSE Sleeping(source_node)]

\* The nodes of the active set the liveness check finds silent.
TerminatingNodes(nodes, active) ==
    {node_id \in active : nodes[node_id].last_msg_time = Epoch}

\* for node_id in terminating_nodes: remove from the active set, then await
\* on_connection_changed(node_id, False).  
refresh_disconnect(t, source_node, node_id, rest, nodes1, life1, sent, span) ==
    IF node_id \notin remote_node_set
    THEN \* remote_node_set.remove raises KeyError
         /\ refresh_tasks' = [refresh_tasks EXCEPT ![t] = NoTask]
         /\ remote_nodes' = nodes1
         /\ life' = life1
         /\ RefreshStep(NoCallback, sent, span)
         /\ UNCHANGED remote_node_set
    ELSE /\ remote_node_set' = remote_node_set \ {node_id}
         /\ refresh_tasks' = [refresh_tasks EXCEPT ![t] =
                                 Disconnecting(source_node, node_id, rest)]
         /\ remote_nodes' = nodes1
         /\ life' = [life1 EXCEPT ![node_id].disconnected = @ + 1]
         /\ RefreshStep(Callback("on_connection_changed", node_id, FALSE), sent, span)

\* What data_span_for_variables can return for a mirror that was deleted
\* from remote_nodes: do_refresh still holds the object, whose catalog the
\* model no longer has.
StaleSpans ==
    { [raised |-> TRUE, offset |-> None, length |-> 0] }
    \cup { [raised |-> FALSE, offset |-> o, length |-> l] :
             o \in 0..MaxOffset, l \in 1..MaxSize }

\* One period of do_refresh with `computed` the result of the call of
\* data_span_for_variables, if the period makes it.
refresh_period(t, computed) ==
    LET task == refresh_tasks[t]
        source_node == task.source_node
        polled == refreshing_timeout # None
        covered == polled /\ refreshing_data_coverage.set
        \* if self.refreshing_data_span is None: the span is computed, and
        \* kept unless the call raises KeyError
        computes == covered /\ ~refreshing_data_span.cached
        span_fails == computes /\ computed.raised
        span == IF computes /\ ~span_fails
                THEN DataSpan(computed.offset, computed.length)
                ELSE refreshing_data_span
        \* if self.refreshing_data_span[1] > 0
        asks == polled /\ ~span_fails /\ (covered => span.length > 0)
        \* get_variables raises KeyError when the mirror is gone: in
        \* get_target_node_var_total_size, or at expected_var_end
        get_fails == asks /\ source_node \notin DOMAIN remote_nodes
        chunk_offset == IF covered THEN span.offset ELSE 0
        chunk_length == IF covered THEN span.length
                        ELSE remote_nodes[source_node].var_total_size - 0
        nodes1 == IF asks /\ ~get_fails
                  THEN [remote_nodes EXCEPT
                           ![source_node].expected_var_end =
                               chunk_offset + chunk_length]
                  ELSE remote_nodes
        sent == IF asks /\ ~get_fails
                THEN get_variables_msg(source_node, chunk_offset, chunk_length)
                ELSE << >>
        life1 == IF asks /\ ~get_fails
                 THEN [life EXCEPT ![source_node].polled = chunk_offset + chunk_length]
                 ELSE life
        \* self.remote_nodes[node_id] for node_id in self.remote_node_set
        check_fails == ~(remote_node_set \subseteq DOMAIN remote_nodes)
        terminating_nodes == TerminatingNodes(nodes1, remote_node_set)
    IN  /\ task.pc = "sleep"
        /\ UNCHANGED << auto_handshake, refreshing_timeout, awaiting, api >>
        /\ IF span_fails \/ get_fails \/ check_fails
           THEN /\ refresh_tasks' = [refresh_tasks EXCEPT ![t] = NoTask]
                /\ remote_nodes' = nodes1
                /\ life' = life1
                /\ RefreshStep(NoCallback, sent, span)
                /\ UNCHANGED remote_node_set
           ELSE IF terminating_nodes = {}
           THEN /\ remote_nodes' = nodes1
                /\ life' = life1
                /\ refresh_tasks' = WhileNotTerminating(t, source_node)
                /\ RefreshStepWhile(sent, span)
                /\ UNCHANGED remote_node_set
           ELSE \E node_id \in terminating_nodes :
                    refresh_disconnect(t, source_node, node_id,
                                       terminating_nodes \ {node_id},
                                       nodes1, life1, sent, span)

\* remote_node.data_span_for_variables(self.refreshing_data_coverage), with
\* remote_node the mirror the handler that started the task had at hand.
refresh_wake(t) ==
    LET source_node == refresh_tasks[t].source_node
    IN  \E computed \in
              IF source_node \in DOMAIN remote_nodes
              THEN { data_span_for_variables(remote_nodes[source_node],
                                             refreshing_data_coverage.order) }
              ELSE IF refreshing_timeout # None /\ refreshing_data_coverage.set
                      /\ ~refreshing_data_span.cached
              THEN StaleSpans
              ELSE { NoSpan } :
            refresh_period(t, computed)

\* set_refreshing_coverage(variables)
set_refreshing_coverage(coverage) ==
    /\ refreshing_data_coverage' = coverage
    /\ refreshing_data_span' = NoDataSpan
    /\ handled' = 0
    /\ fired' = NoCallback
    /\ io_written' = << >>
    /\ UNCHANGED << session_vars, send_vars, reader_vars, loop_vars, asm,
                    input_lock, flows >>

refresh_resume(t) ==
    LET task == refresh_tasks[t]
        \* del self.remote_nodes[node_id]
        nodes1 == DictDel(remote_nodes, task.cur)
        life1 == [life EXCEPT ![task.cur].removed = TRUE]
    IN  /\ task.pc = "await"
        /\ UNCHANGED << auto_handshake, refreshing_timeout, awaiting, api >>
        /\ IF task.cur \notin DOMAIN remote_nodes
           THEN \* KeyError
                /\ refresh_tasks' = [refresh_tasks EXCEPT ![t] = NoTask]
                /\ Step(NoCallback, << >>)
                /\ UNCHANGED << remote_nodes, remote_node_set, life >>
           ELSE IF task.rest = {}
           THEN /\ refresh_tasks' = WhileNotTerminating(t, task.source_node)
                /\ remote_nodes' = nodes1
                /\ life' = life1
                /\ StepWhile(<< >>)
                /\ UNCHANGED remote_node_set
           ELSE \E node_id \in task.rest :
                    refresh_disconnect(t, task.source_node, node_id,
                                       task.rest \ {node_id}, nodes1, life1, << >>,
                                       refreshing_data_span)

(***************************************************************************)
(* The variable API, called by the application on its own thread, one call *)
(* at a time.  set_var and set_var_array change the mirror under the input *)
(* lock and send after they released it: handlers and tasks of the event   *)
(* loop can run in between.                                                *)
(***************************************************************************)
\* get_variables(target_node_id, chunk_offset, chunk_length): the KeyError of
\* an unknown target comes before the send
Connection_get_variables(target_node_id, chunk_offset, chunk_length) ==
    /\ api.pc = "idle"
    /\ target_node_id \in DOMAIN remote_nodes
    /\ remote_nodes' = [remote_nodes EXCEPT ![target_node_id].expected_var_end =
                                                chunk_offset + chunk_length]
    /\ life' = [life EXCEPT ![target_node_id].polled = chunk_offset + chunk_length]
    /\ Step(NoCallback, get_variables_msg(target_node_id, chunk_offset, chunk_length))
    /\ UNCHANGED << remote_node_set, auto_handshake, refreshing_timeout,
                    awaiting, refresh_tasks, api >>

\* set_var, to the release of the input lock; a KeyError or an IndexError
\* ends the call before it changed anything
Connection_set_var(target_node_id, name, val, index) ==
    /\ api.pc = "idle"
    /\ target_node_id \in DOMAIN remote_nodes
    /\ set_var_ok(remote_nodes[target_node_id], name, index)
    /\ remote_nodes' = [remote_nodes EXCEPT ![target_node_id] =
                            set_var(@, name, val, index)]
    /\ life' = [life EXCEPT ![target_node_id].written =
                    Overwrite(@, remote_nodes[target_node_id].var_offset[name] + index,
                              << val >>)]
    /\ api' = [pc |-> "send", node |-> target_node_id, name |-> name,
               val |-> << val >>, index |-> index]
    /\ Step(NoCallback, << >>)
    /\ UNCHANGED << remote_node_set, auto_handshake, refreshing_timeout,
                    awaiting, refresh_tasks >>

\* set_var_array, to the release of the input lock
Connection_set_var_array(target_node_id, name, val) ==
    /\ api.pc = "idle"
    /\ target_node_id \in DOMAIN remote_nodes
    /\ name \in DOMAIN remote_nodes[target_node_id].var_offset
    /\ remote_nodes' = [remote_nodes EXCEPT ![target_node_id] =
                            set_var_array(@, name, val)]
    /\ life' = [life EXCEPT ![target_node_id].written =
                    Overwrite(@, remote_nodes[target_node_id].var_offset[name], val)]
    /\ api' = [pc |-> "send", node |-> target_node_id, name |-> name,
               val |-> val, index |-> None]
    /\ Step(NoCallback, << >>)
    /\ UNCHANGED << remote_node_set, auto_handshake, refreshing_timeout,
                    awaiting, refresh_tasks >>

\* The last statement of set_var and of set_var_array:
\* self.set_variables(target_node_id, node.var_offset[name] (+ index), val).
\* node is the mirror the call started with, which is still in remote_nodes.
Connection_set_var_send ==
    /\ api.pc = "send"
    /\ api.node \in DOMAIN remote_nodes
    /\ LET node == remote_nodes[api.node]
           chunk_offset == IF api.index = None
                           THEN node.var_offset[api.name]
                           ELSE node.var_offset[api.name] + api.index
       IN  Step(NoCallback, set_variables(api.node, chunk_offset, api.val))
    /\ api' = NoApi
    /\ UNCHANGED << remote_nodes, remote_node_set, auto_handshake,
                    refreshing_timeout, awaiting, refresh_tasks, life >>

\* set_bytecode(target_node_id, bytecode, address): size = len(bytecode); i = 0.
\* The call keeps what it has sent so far.
Connection_set_bytecode(target_node_id, bytecode, address) ==
    /\ api.pc = "idle"
    /\ api' = [pc |-> "set_bytecode", node |-> target_node_id, val |-> bytecode,
               address |-> address, i |-> 0, sent |-> << >>]
    /\ Step(NoCallback, << >>)
    /\ UNCHANGED << remote_nodes, remote_node_set, auto_handshake,
                    refreshing_timeout, awaiting, refresh_tasks, life >>

\* while i < size: send the chunk at i; i += size_chunk.  Each send takes the
\* output lock on its own.
Connection_set_bytecode_loop ==
    /\ api.pc = "set_bytecode"
    /\ IF api.i < Len(api.val)
       THEN LET sent == set_bytecode_send(api.node, api.val, api.address, api.i)
            IN  /\ api' = [api EXCEPT
                              !.i = @ + Min(Len(api.val) - api.i, BytecodeChunk),
                              !.sent = @ \o sent]
                /\ Step(NoCallback, sent)
       ELSE /\ api' = NoApi
            /\ Step(NoCallback, << >>)
    /\ UNCHANGED << remote_nodes, remote_node_set, auto_handshake,
                    refreshing_timeout, awaiting, refresh_tasks, life >>

(***************************************************************************)
(* The session engine.  The host calls handshake() and set_refreshing_rate *)
(* at any time, time passes, callbacks return, tasks wake up, and robots   *)
(* send messages.  A robot describes itself when asked to                  *)
(* (GET_NODE_DESCRIPTION), in the order of the protocol: DESCRIPTION, the  *)
(* named variables, the local events, the native functions; it may send a  *)
(* variable or a native function description more often than it declared.  *)
(* It sends VARIABLES once it was asked to (GET_VARIABLES), and            *)
(* NODE_PRESENT, DEVICE_INFO and user events at any time.                  *)
(***************************************************************************)
Mirrored(n) == n \in DOMAIN remote_nodes

RobotDescribes(n) ==
    /\ Mirrored(n)
    /\ life[n].requested
    /\ ~Described(remote_nodes[n])

RobotNamesVariable(n) ==
    /\ Mirrored(n)
    /\ Described(remote_nodes[n])
    /\ remote_nodes[n].local_events = << >>
    /\ remote_nodes[n].native_functions = << >>

CatalogComplete(node) ==
    /\ Described(node)
    /\ Len(node.named_variables) >= node.num_named_var

RobotNamesEvent(n) ==
    /\ Mirrored(n)
    /\ CatalogComplete(remote_nodes[n])
    /\ Len(remote_nodes[n].local_events) < remote_nodes[n].num_local_events
    /\ remote_nodes[n].native_functions = << >>

RobotNamesFunction(n) ==
    /\ Mirrored(n)
    /\ CatalogComplete(remote_nodes[n])
    /\ Len(remote_nodes[n].local_events) >= remote_nodes[n].num_local_events

RobotSendsVariables(n) ==
    /\ Mirrored(n)
    /\ life[n].polled # None

\* One message of robot n is handled, up to the handler's first await.
Dispatch(n) ==
    \/ handle_NODE_PRESENT(n, 6)
    \/ handle_DEVICE_INFO(n, DEVICE_INFO_NAME, 1)
    \/ \E nv \in 0..1, ne \in 0..1, nf \in 0..1 :
            RobotDescribes(n) /\ handle_DESCRIPTION(n, nv, ne, nf)
    \/ RobotNamesVariable(n) /\ handle_NAMED_VARIABLE_DESCRIPTION(n, "x", 1)
    \/ RobotNamesEvent(n) /\ handle_LOCAL_EVENT_DESCRIPTION(n, "e")
    \/ RobotNamesFunction(n) /\ handle_NATIVE_FUNCTION_DESCRIPTION(n, "f")
    \/ RobotSendsVariables(n) /\ handle_VARIABLES(n, 0, << 0 >>)
    \/ handle_user_event(n)

\* The session specification follows one robot.
Solo == {1}

Next ==
    \/ handshake
    \/ \E rate \in {None, Rate} : set_refreshing_rate(rate)
    \/ \E n \in Solo : Dispatch(n)
    \/ \E n \in Solo : handle_message_resume(n)
    \/ \E n \in Solo : TimePasses(n)
    \/ \E t \in 1..MaxRefresh : refresh_wake(t)
    \/ \E t \in 1..MaxRefresh : refresh_resume(t)

Spec == Init /\ [][Next]_vars

\* The event loop runs a task whose sleep has ended, and user callbacks return.
Fairness ==
    /\ \A t \in 1..MaxRefresh : WF_vars(refresh_wake(t))
    /\ \A t \in 1..MaxRefresh : WF_vars(refresh_resume(t))
    /\ \A n \in Solo : WF_vars(handle_message_resume(n))

FairSpec == Spec /\ Fairness

(***************************************************************************)
(* The variable mirror.  The application calls handshake, one robot        *)
(* announces itself and describes its variables, each under its own name   *)
(* and as many as it declared; the application and the refresh task ask    *)
(* for chunks of variables, and the robot answers with windows of words.   *)
(***************************************************************************)
VarNames == << "x", "y", "z" >>

\* Words of a VARIABLES window as Message.decode yields them.
Words == {300, 65535}

SeqsUpTo(S, n) == UNION {[1..k -> S] : k \in 1..n}

RobotAnnounces(n) ==
    /\ auto_handshake
    /\ ~Mirrored(n)

RobotNamesNextVariable(n) ==
    /\ Mirrored(n)
    /\ Described(remote_nodes[n])
    /\ Len(remote_nodes[n].named_variables) < remote_nodes[n].num_named_var
    /\ Len(remote_nodes[n].named_variables) < Len(VarNames)

\* The discovery of robot n and the description of its variables.
DispatchCatalog(n) ==
    \/ RobotAnnounces(n) /\ handle_NODE_PRESENT(n, 6)
    \/ \E nv \in 1..MaxDescr :
            RobotDescribes(n) /\ handle_DESCRIPTION(n, nv, 0, 0)
    \/ \E size \in 1..MaxSize :
            /\ RobotNamesNextVariable(n)
            /\ handle_NAMED_VARIABLE_DESCRIPTION(
                    n, VarNames[Len(remote_nodes[n].named_variables) + 1], size)

NextMirror ==
    \/ ~auto_handshake /\ handshake
    \/ \E n \in Solo : DispatchCatalog(n)
    \/ \E n \in Solo, offset \in 0..MaxOffset, data \in SeqsUpTo(Words, MaxChunk) :
            RobotSendsVariables(n) /\ handle_VARIABLES(n, offset, data)
    \/ \E n \in Solo : handle_message_resume(n)
    \/ \E n \in Solo, offset \in 0..MaxOffset, length \in 1..MaxChunk :
            Connection_get_variables(n, offset, length)
    \/ \E t \in 1..MaxRefresh : refresh_wake(t)

\* Connection(..., refreshing_rate = Rate)
InitMirror == Init /\ refreshing_timeout = Rate

SpecMirror == InitMirror /\ [][NextMirror]_vars

(***************************************************************************)
(* Writing variables.  As above, and the application writes variables of   *)
(* the robot while the robot answers a request for its variables.          *)
(***************************************************************************)
\* Values the application writes.
Values == {-1, 300}

NextSetVar ==
    \/ ~auto_handshake /\ handshake
    \/ \E n \in Solo : DispatchCatalog(n)
    \/ \E n \in Solo : Connection_get_variables(n, 0, 1)
    \/ \E n \in Solo : RobotSendsVariables(n) /\ handle_VARIABLES(n, 0, << 65535 >>)
    \/ \E n \in Solo : handle_message_resume(n)
    \/ \E n \in Solo, name \in {"x", "y"}, val \in Values, index \in 0..1 :
            Connection_set_var(n, name, val, index)
    \/ \E n \in Solo, name \in {"x", "y"}, val \in SeqsUpTo(Values, MaxChunk) :
            Connection_set_var_array(n, name, val)
    \/ Connection_set_var_send

SpecSetVar == Init /\ [][NextSetVar]_vars

(***************************************************************************)
(* Claims about the session engine.                                        *)
(***************************************************************************)
Active(n) == n \in remote_node_set
Silent(n) == Mirrored(n) /\ remote_nodes[n].last_msg_time = Epoch

\* The robot has sent exactly the reply to GET_NODE_DESCRIPTION the mirror's
\* creation asked for: DESCRIPTION and as many descriptors as it declares.
HandshakeAnswered(n) ==
    /\ Mirrored(n)
    /\ life[n].requested
    /\ Described(remote_nodes[n])
    /\ Len(remote_nodes[n].named_variables) = remote_nodes[n].num_named_var
    /\ Len(remote_nodes[n].local_events) = remote_nodes[n].num_local_events
    /\ Len(remote_nodes[n].native_functions) = remote_nodes[n].num_native_fun

Connected(n) ==
    /\ Active(n)
    /\ remote_nodes[n].handshake_done
    /\ life[n].connected = 1

\* C1: once the reply to the handshake has been dispatched, whatever the
\* declared counts, the node is in the active set, handshake_done is true and
\* on_connection_changed(id, True) has been fired exactly once (as long as no
\* liveness timeout has disconnected the node again).
C1_HandshakeCompleteness ==
    \A n \in Nodes :
        HandshakeAnswered(n) /\ life[n].disconnected = 0 => Connected(n)

\* C2: between the creation of a mirror and its removal,
\* on_connection_changed(id, True) is fired at most once.
C2_ConnectedAtMostOnce ==
    \A n \in Nodes : Mirrored(n) => life[n].connected <= 1

\* C4: on_variables_received(id) is delivered only while the node is in the
\* active set, after on_connection_changed(id, True) and before
\* on_connection_changed(id, False) of the same mirror.
C4_VariablesOnlyWhileActive ==
    fired.cb = "on_variables_received" =>
        /\ Active(fired.node)
        /\ life[fired.node].connected >= 1
        /\ life[fired.node].disconnected = 0

\* C5: the handling of a message of a node does not start while the handling
\* of an earlier message of that node is suspended in its user callback.
C5_OneAtATime ==
    [][handled' # 0 => awaiting[handled'] = 0]_vars

\* The requests a NODE_PRESENT of version 6 from an unknown node triggers.
HandshakeRequests(n) == get_device_info(n) \o get_node_description(n)

\* C6: after a node was removed on liveness timeout, its next NODE_PRESENT
\* creates a new, empty mirror and issues the handshake requests again, and
\* when the robot has answered them completely (at least one native function)
\* the node is connected: on_connection_changed(id, True) is fired for the
\* new mirror, exactly once.
C6_FreshLifecycle ==
    \A n \in Nodes :
        Mirrored(n) /\ life[n].removed =>
            /\ io_written = HandshakeRequests(n) =>
                   remote_nodes[n] =
                       [RemoteNode(n, 6) EXCEPT !.last_msg_time = Recent]
            /\ ( /\ HandshakeAnswered(n)
                 /\ remote_nodes[n].num_native_fun >= 1
                 /\ life[n].disconnected = 0 ) => Connected(n)

\* The mirror of n was deleted on liveness timeout after exactly one
\* on_connection_changed(n, False), and n has left the active set.
Removed(n) ==
    /\ ~Mirrored(n)
    /\ ~Active(n)
    /\ life[n].disconnected = 1

\* C3: an active node of which no message was handled for longer than the
\* timeout is removed (one disconnect callback, out of the active set, mirror
\* deleted), unless a message of it is handled again.
C3_Liveness ==
    \A n \in Nodes :
        (Active(n) /\ Silent(n)) ~>
            (Removed(n) \/ (Mirrored(n) /\ ~Silent(n)))

\* C7: every mirror, active or not, of which no message was handled for longer
\* than the timeout is removed from remote_nodes, unless a message of it is
\* handled again.
C7_EveryMirrorRemoved ==
    \A n \in Nodes : Silent(n) ~> ~Silent(n)

(***************************************************************************)
(* Claims about the variable mirror.                                       *)
(***************************************************************************)
\* Every offset of [0, var_total_size) was written since var_data was reset.
Covered(n) ==
    \A i \in 0..(remote_nodes[n].var_total_size - 1) : i \in DOMAIN life[n].written

\* C8: once the catalog of a node is complete and windows covering
\* [0, var_total_size) were applied, in any order, get_var_array(v) is, for every
\* variable v of the catalog, the var_size[v] words most recently written at
\* the offsets var_offset[v] .. var_offset[v] + var_size[v] - 1.
C8_MirrorCoherence ==
    \A n \in Nodes :
        (Mirrored(n) /\ CatalogComplete(remote_nodes[n]) /\ Covered(n)) =>
            \A v \in DOMAIN remote_nodes[n].var_offset :
                get_var_array(remote_nodes[n], v) =
                    [k \in 1..remote_nodes[n].var_size[v] |->
                        life[n].written[remote_nodes[n].var_offset[v] + k - 1]]

\* Two variables of together three words or more, which no single window
\* covers, were covered, and the second variable holds two different words.
C8_CoveredByWindows ==
    \E n \in Nodes :
        /\ Mirrored(n)
        /\ CatalogComplete(remote_nodes[n])
        /\ Covered(n)
        /\ remote_nodes[n].var_total_size >= 3
        /\ remote_nodes[n].named_variables = << "x", "y" >>
        /\ remote_nodes[n].var_size["y"] = 2
        /\ get_var_array(remote_nodes[n], "y") = << 65535, 300 >>

\* C9: the handler of VARIABLES(offset, data) of a known node sets var_received
\* to offset + len(data) >= the end of the chunk that the most recent
\* get_variables of that node asked for, and fires on_variables_received(node)
\* for that message if and only if var_received is then true.
C9_VariablesReceived ==
    [][ \A n \in Nodes, offset \in 0..MaxOffset, data \in SeqsUpTo(Words, MaxChunk) :
            ( /\ handled' = n
              /\ Mirrored(n)
              /\ life[n].polled # None
              /\ handle_VARIABLES(n, offset, data) ) =>
                /\ remote_nodes'[n].var_received =
                        (offset + Len(data) >= life[n].polled)
                /\ (fired' = Callback("on_variables_received", n, TRUE))
                        <=> remote_nodes'[n].var_received
                /\ (fired' # Callback("on_variables_received", n, TRUE))
                        => fired' = NoCallback ]_vars

\* A window that ends where the requested chunk of a described node ends, two
\* words or more from the start, was notified.
C9_Notified ==
    \E n \in Nodes :
        /\ Mirrored(n)
        /\ CatalogComplete(remote_nodes[n])
        /\ fired = Callback("on_variables_received", n, TRUE)
        /\ remote_nodes[n].var_received
        /\ life[n].polled >= 2
        /\ \E offset \in 0..MaxOffset :
                /\ offset + 1 = life[n].polled
                /\ offset \in DOMAIN life[n].written

\* The offset a call of set_var (index) or set_var_array (None) writes at.
CallOffset(node, name, index) ==
    IF index = None THEN node.var_offset[name] ELSE node.var_offset[name] + index

\* C10: set_var_array(node, name, values) and set_var(node, name, val, index) on
\* a node whose catalog is complete first update the mirror at var_offset[name]
\* (+ index), before anything is sent, and then send exactly one SET_VARIABLES
\* whose payload words are node, var_offset[name] (+ index) and the values.
C10_MirrorThenOneSetVariables ==
    [][ /\ ( /\ api.pc = "idle"
             /\ api'.pc = "send"
             /\ CatalogComplete(remote_nodes[api'.node]) ) =>
                LET offset == CallOffset(remote_nodes[api'.node], api'.name, api'.index)
                    var_data == remote_nodes'[api'.node].var_data
                IN  /\ io_written' = << >>
                    /\ Len(var_data) >= offset + Len(api'.val)
                    /\ \A k \in 1..Len(api'.val) : var_data[offset + k] = api'.val[k]
        /\ ( /\ api.pc = "send"
             /\ api'.pc = "idle"
             /\ CatalogComplete(remote_nodes[api.node]) ) =>
                LET offset == CallOffset(remote_nodes[api.node], api.name, api.index)
                IN  /\ Len(io_written') = 1
                    /\ io_written'[1].id = ID_SET_VARIABLES
                    /\ io_written'[1].source_node = host_node_id
                    /\ decode_words(io_written'[1].payload, 0) =
                            << api.node, offset >>
                            \o [k \in 1..Len(api.val) |-> api.val[k] % 65536]
                    /\ remote_nodes' = remote_nodes ]_vars

\* set_var_array(1, "y", [-1, 300]) with "y" at offset 1 has updated the mirror
\* and sent its message.
C10_ArraySent ==
    /\ api.pc = "idle"
    /\ Mirrored(1)
    /\ CatalogComplete(remote_nodes[1])
    /\ remote_nodes[1].named_variables = << "x", "y" >>
    /\ remote_nodes[1].var_offset["y"] = 1
    /\ Len(remote_nodes[1].var_data) >= 3
    /\ SubSeq(remote_nodes[1].var_data, 2, 3) = << -1, 300 >>
    /\ Len(io_written) = 1
    /\ io_written[1].id = ID_SET_VARIABLES
    /\ decode_words(io_written[1].payload, 0) = << 1, 1, 65535, 300 >>

(***************************************************************************)
(* Sending a bytecode.  The application calls set_bytecode with bytecodes  *)
(* of every length up to MaxBytecode, at two addresses.                    *)
(***************************************************************************)
\* A bytecode of len different words, each of two non-zero bytes.
Bytecode(len) == [i \in 1..len |-> 40000 + i]

NextBytecode ==
    \/ \E n \in Solo, len \in 0..MaxBytecode, address \in {0, 7} :
            Connection_set_bytecode(n, Bytecode(len), address)
    \/ Connection_set_bytecode_loop

SpecBytecode == Init /\ [][NextBytecode]_vars

\* C11: set_bytecode(n, bc, addr) sends its messages in increasing address
\* order: after k messages the next chunk starts at min(256 k, len(bc)), message
\* j is a SET_BYTECODE whose payload words are n, addr + 256 (j - 1) and
\* bc[256 (j - 1) : 256 j] (at most 256 words), and nothing more is sent once
\* the chunks make up bc: ceil(len(bc) / 256) messages in all, none for an empty
\* bytecode.
C11_BytecodeChunks ==
    api.pc = "set_bytecode" =>
        LET bc == api.val
            k == Len(api.sent)
        IN  /\ api.i = Min(256 * k, Len(bc))
            /\ k = (api.i + 255) \div 256
            /\ \A j \in 1..k :
                /\ api.sent[j].id = ID_SET_BYTECODE
                /\ api.sent[j].source_node = host_node_id
                /\ decode_words(api.sent[j].payload, 0) =
                        << api.node, api.address + 256 * (j - 1) >>
                        \o [m \in 1..Min(256, Len(bc) - 256 * (j - 1)) |->
                                bc[256 * (j - 1) + m]]

\* A bytecode of 600 words was sent at address 0 in three messages of 256, 256
\* and 88 words.
C11_SixHundredWords ==
    /\ api.pc = "set_bytecode"
    /\ Len(api.val) = 600
    /\ api.address = 0
    /\ api.i = 600
    /\ Len(api.sent) = 3
    /\ Len(api.sent[1].payload) = 2 * (2 + 256)
    /\ Len(api.sent[2].payload) = 2 * (2 + 256)
    /\ Len(api.sent[3].payload) = 2 * (2 + 88)
    /\ get_uint16(api.sent[3].payload, 2) = 512


(***************************************************************************)
(* Discovery.  The application may call handshake; two robots announce     *)
(* themselves with a protocol version below or at 6, and answer requests   *)
(* for device information.                                                 *)
(***************************************************************************)
\* msg.version of a NODE_PRESENT: below and at the first version with
\* device information
Versions == {5, 6}

\* Values of a device information, as Message.decode yields them.
InfoValues == {1}

NextDiscover ==
    \/ handshake
    \/ \E n \in Nodes, version \in Versions : handle_NODE_PRESENT(n, version)
    \/ \E n \in Nodes, value \in InfoValues,
          info \in {DEVICE_INFO_UUID, DEVICE_INFO_NAME, DEVICE_INFO_THYMIO2_RF_SETTINGS} :
            handle_DEVICE_INFO(n, info, value)
    \/ \E n \in Nodes : TimePasses(n)

SpecDiscover == Init /\ [][NextDiscover]_vars

\* The ids of the messages of a sequence, in order.
SentIds(sent) == [i \in 1..Len(sent) |-> sent[i].id]

\* C12: a NODE_PRESENT of version >= 6 from a source without mirror, with
\* auto_handshake on, writes exactly four messages of the host: three
\* GET_DEVICE_INFO, one for each of UUID, NAME and RF settings (the code sends
\* them in the order NAME, RF settings, UUID), then one GET_NODE_DESCRIPTION,
\* each with the source as target.  With a version below 6 it writes the
\* GET_NODE_DESCRIPTION alone.  From a source that has a mirror it writes
\* nothing and the mirror stays as it was, its version included, but for the
\* time of its last message.
C12_NodePresentRequests ==
    [][\A n \in Nodes, version \in Versions :
        (handled' = n /\ handle_NODE_PRESENT(n, version)) =>
            LET description == Message(ID_GET_NODE_DESCRIPTION, host_node_id,
                                       uint16_to_bytes(n) \o uint16_to_bytes(PROTOCOL_VERSION))
            IN
            /\ (~Mirrored(n) /\ auto_handshake /\ version >= 6) =>
                    /\ SentIds(io_written') =
                            << ID_GET_DEVICE_INFO, ID_GET_DEVICE_INFO,
                               ID_GET_DEVICE_INFO, ID_GET_NODE_DESCRIPTION >>
                    /\ \A i \in 1..3 :
                            /\ io_written'[i].source_node = host_node_id
                            /\ Len(io_written'[i].payload) = 4
                            /\ get_uint16(io_written'[i].payload, 0) = n
                    /\ {get_uint16(io_written'[i].payload, 2) : i \in 1..3} =
                            {DEVICE_INFO_UUID, DEVICE_INFO_NAME,
                             DEVICE_INFO_THYMIO2_RF_SETTINGS}
                    /\ io_written'[4] = description
            /\ (~Mirrored(n) /\ auto_handshake /\ version < 6) =>
                    io_written' = << description >>
            /\ (~Mirrored(n) /\ ~auto_handshake) =>
                    io_written' = << >>
            /\ ~Mirrored(n) =>
                    /\ Mirrored(n)'
                    /\ remote_nodes'[n].version = version
            /\ Mirrored(n) =>
                    /\ io_written' = << >>
                    /\ remote_nodes' =
                            [remote_nodes EXCEPT ![n].last_msg_time = Recent]
      ]_vars

\* Both cases have happened: robot 1 was discovered with version 6 and the
\* four requests of robot 2, of version 6 too, are the last thing written.
C12_FourRequests ==
    /\ auto_handshake
    /\ Mirrored(1) /\ Mirrored(2)
    /\ remote_nodes[2].version = 6
    /\ handled = 2
    /\ Len(io_written) = 4
    /\ io_written[4].id = ID_GET_NODE_DESCRIPTION
    /\ get_uint16(io_written[4].payload, 0) = 2

(***************************************************************************)
(* Connection.send, step by step.  The thread of the application and the   *)
(* thread of the event loop call send; io.write (sendall) puts the bytes   *)
(* of the message on the transport one after the other and may raise at    *)
(* any byte.                                                               *)
(***************************************************************************)
\* errno of the OSError io.write raises: EPIPE, ECONNRESET
Errors == {32, 104}

\* A lock that is taken whoever holds it.
Lock_acquirable_always(holder) == TRUE

\* with self.output_lock: the lock can be taken
Lock_acquirable(holder) == holder = Unlocked

\* with self.output_lock: the thread takes the lock and enters the block.
send_acquire(th, msg) ==
    /\ senders[th].pc = "idle"
    /\ Len(send_log) < MaxSends
    /\ Lock_acquirable(output_lock)
    /\ output_lock' = th
    /\ senders' = [senders EXCEPT ![th] =
                     [NoSender EXCEPT !.pc = "write", !.msg = msg]]
    /\ send_log' = Append(send_log,
                          [by |-> th, msg |-> msg, written |-> 0, error |-> None])
    /\ Ghost(0, NoCallback, << >>)
    /\ UNCHANGED << wire, comm_error, on_comm_error >>
    /\ UNCHANGED << session_vars, reader_vars, loop_vars >>

\* The entry of the log of the call thread th is in.
Entry(th) == CHOOSE i \in 1..Len(send_log) :
                /\ send_log[i].by = th
                /\ \A j \in (i + 1)..Len(send_log) : send_log[j].by # th

\* self.io.write(msg.serialize()): the next byte goes on the transport.
io_write(th) ==
    LET bytes == serialize(senders[th].msg)
        pos == senders[th].pos
    IN  /\ senders[th].pc = "write"
        /\ pos < Len(bytes)
        /\ wire' = Append(wire, bytes[pos + 1])
        /\ senders' = [senders EXCEPT ![th].pos = pos + 1]
        /\ send_log' = [send_log EXCEPT ![Entry(th)].written = @ + 1]
        /\ Ghost(0, NoCallback,
                 IF pos + 1 = Len(bytes) THEN << senders[th].msg >> ELSE << >>)
        /\ UNCHANGED << output_lock, comm_error, on_comm_error >>
        /\ UNCHANGED << session_vars, reader_vars, loop_vars >>

\* io.write has returned: the block and send end, the lock is released.
send_return(th) ==
    /\ senders[th].pc = "write"
    /\ senders[th].pos = Len(serialize(senders[th].msg))
    /\ output_lock' = Unlocked
    /\ senders' = [senders EXCEPT ![th].pc = "idle", ![th].result = "returned"]
    /\ Ghost(0, NoCallback, << >>)
    /\ UNCHANGED << wire, send_log, comm_error, on_comm_error >>
    /\ UNCHANGED << session_vars, reader_vars, loop_vars >>

\* an except clause that calls on_comm_error and does not keep the error
send_except_unrecorded(th, error) ==
    /\ senders[th].pc = "write"
    /\ senders' = [senders EXCEPT ![th].pc = "raise", ![th].error = error,
                                  ![th].calls = IF on_comm_error THEN @ + 1 ELSE @]
    /\ send_log' = [send_log EXCEPT ![Entry(th)].error = error]
    /\ Ghost(0, IF on_comm_error THEN Callback("on_comm_error", 0, FALSE)
                ELSE NoCallback, << >>)
    /\ UNCHANGED << output_lock, wire, comm_error, on_comm_error >>
    /\ UNCHANGED << session_vars, reader_vars, loop_vars >>

\* io.write raises error: except Exception as error: self.comm_error = error;
\* if self.on_comm_error: self.on_comm_error(error)
send_except(th, error) ==
    /\ senders[th].pc = "write"
    /\ comm_error' = error
    /\ senders' = [senders EXCEPT ![th].pc = "raise", ![th].error = error,
                                  ![th].calls = IF on_comm_error THEN @ + 1 ELSE @]
    /\ send_log' = [send_log EXCEPT ![Entry(th)].error = error]
    /\ Ghost(0, IF on_comm_error THEN Callback("on_comm_error", 0, FALSE)
                ELSE NoCallback, << >>)
    /\ UNCHANGED << output_lock, wire, on_comm_error >>
    /\ UNCHANGED << session_vars, reader_vars, loop_vars >>

\* raise error: the exception leaves the block, which releases the lock, and
\* reaches the caller of send.
send_raise(th) ==
    /\ senders[th].pc = "raise"
    /\ output_lock' = Unlocked
    /\ senders' = [senders EXCEPT ![th].pc = "idle", ![th].result = "raised"]
    /\ Ghost(0, NoCallback, << >>)
    /\ UNCHANGED << wire, send_log, comm_error, on_comm_error >>
    /\ UNCHANGED << session_vars, reader_vars, loop_vars >>

\* The application assigns Connection.on_comm_error.
set_on_comm_error ==
    /\ ~on_comm_error
    /\ on_comm_error' = TRUE
    /\ Ghost(0, NoCallback, << >>)
    /\ UNCHANGED << output_lock, senders, wire, send_log, comm_error >>
    /\ UNCHANGED << session_vars, reader_vars, loop_vars >>

\* The messages a thread sends: the application writes a variable or lists
\* the nodes; on the event loop a refresh task asks for the variables of a
\* node.
SendCalls(th) ==
    IF th = "user"
    THEN {set_variables(1, 0, << 300 >>)[1], list_nodes[1]}
    ELSE {get_variables_msg(1, 0, 1)[1]}

NextSend ==
    \/ set_on_comm_error
    \/ \E th \in Threads : \E msg \in SendCalls(th) : send_acquire(th, msg)
    \/ \E th \in Threads : io_write(th)
    \/ \E th \in Threads : send_return(th)
    \/ \E th \in Threads, error \in Errors : send_except(th, error)
    \/ \E th \in Threads : send_raise(th)

SpecSend == Init /\ [][NextSend]_vars

\* The bytes the calls of a log have written, call after call.
RECURSIVE Written(_)
Written(log) ==
    IF log = << >>
    THEN << >>
    ELSE Written(SubSeq(log, 1, Len(log) - 1))
         \o SubSeq(serialize(log[Len(log)].msg), 1, log[Len(log)].written)

\* The threads inside the block of the output lock.
InBlock == {th \in Threads : senders[th].pc \in {"write", "raise"}}

\* C13: at most one thread is inside the block guarded by the output lock,
\* hence inside the transport's write, and it is the holder of the lock; the
\* bytes on the transport are the bytes of the calls of send in the order the
\* calls took the lock, each call's bytes in one piece: a call writes only
\* while it is the last one of the log, so everything before its first byte
\* was written by calls that have ended.
C13_WritesNotInterleaved ==
    /\ Cardinality(InBlock) <= 1
    /\ \A th \in InBlock : output_lock = th /\ Entry(th) = Len(send_log)
    /\ InBlock = {} => output_lock = Unlocked
    /\ wire = Written(send_log)
    /\ \A i \in 1..Len(send_log) :
            (i < Len(send_log) \/ InBlock = {}) =>
                \/ send_log[i].error # None
                \/ send_log[i].written = Len(serialize(send_log[i].msg))

\* The application has sent a whole message and the event loop, which took
\* the lock after it, is three bytes into its own.
C13_BothThreadsSent ==
    /\ Len(send_log) = 2
    /\ send_log[1].by = "user" /\ send_log[1].error = None
    /\ send_log[2].by = "loop"
    /\ senders["user"].result = "returned"
    /\ senders["loop"].pc = "write" /\ senders["loop"].pos = 3
    /\ Len(wire) = Len(serialize(send_log[1].msg)) + 3

\* C14: the step in which the write of a call of send raises keeps the error
\* in Connection.comm_error and, on_comm_error being set, calls it, once,
\* while the thread is still inside send and holds the lock; the next step of
\* the thread lets the same exception reach the caller and releases the lock,
\* without another call of on_comm_error.
C14_WriteErrorReported ==
    [][\A th \in Threads :
        /\ (senders[th].pc = "write" /\ senders'[th].pc = "raise") =>
                /\ senders'[th].error \in Errors
                /\ comm_error' = senders'[th].error
                /\ output_lock' = th
                /\ on_comm_error =>
                        /\ fired' = Callback("on_comm_error", 0, FALSE)
                        /\ senders'[th].calls = 1
        /\ (senders[th].pc = "raise" /\ senders'[th].pc = "idle") =>
                /\ senders'[th].result = "raised"
                /\ senders'[th].error = senders[th].error
                /\ senders'[th].calls = senders[th].calls
                /\ fired' = NoCallback
                /\ output_lock' = Unlocked
        /\ (senders[th].pc = "write" /\ senders'[th].pc = "idle") =>
                /\ senders'[th].result = "returned"
                /\ senders'[th].calls = 0
                /\ comm_error' = comm_error
      ]_vars

\* A write of the application has raised after three bytes, on_comm_error was
\* called once and the exception reached the application; afterwards the
\* event loop has sent a whole message.
C14_SendAfterError ==
    /\ on_comm_error
    /\ Len(send_log) = 2
    /\ send_log[1].by = "user" /\ send_log[1].error = 32 /\ send_log[1].written = 3
    /\ senders["user"].result = "raised" /\ senders["user"].calls = 1
    /\ comm_error = 32
    /\ send_log[2].by = "loop" /\ send_log[2].error = None
    /\ senders["loop"].result = "returned"
    /\ output_lock = Unlocked

(***************************************************************************)
(* The InputThread.  The robot puts whole frames on the stream; every call *)
(* of io.read(n) is one step, which takes the number k of bytes the        *)
(* transport returns: recv returns what has arrived, up to n bytes, and a  *)
(* serial port with a timeout returns no byte when none arrives in time.   *)
(***************************************************************************)
\* raise TimeoutError()
TimeoutError == 110

\* msg.decode() raises IndexError: a payload too short for the fields of the
\* message id, or a user event with half a word.
decode_raises(msg) ==
    CASE msg.id = ID_VARIABLES -> Len(msg.payload) < 2
      [] msg.id = ID_NODE_PRESENT -> Len(msg.payload) < 2
      [] msg.id < ID_FIRST_ASEBA_ID -> Len(msg.payload) % 2 = 1
      [] OTHER -> FALSE

\* The robot sends a message.
robot_sends(msg) ==
    /\ Len(framed) < MaxFrames
    /\ stream' = stream \o serialize(msg)
    /\ framed' = Append(framed, msg)
    /\ Ghost(0, NoCallback, << >>)
    /\ UNCHANGED << reader, received, transit >>
    /\ UNCHANGED << session_vars, send_vars, loop_vars >>

\* except Exception as error: self.comm_error = error; raise error, with a
\* TimeoutError, which run catches: the loop of run starts the next
\* read_message.
read_message_timeout ==
    [reader EXCEPT !.pc = "header", !.words = << >>, !.half = None,
                   !.comm_error = TimeoutError]

\* read_uint16 returns word: the next header word, or the payload, is read.
read_message_word(word) ==
    [reader EXCEPT !.pc = IF Len(reader.words) = 2 THEN "payload" ELSE "header",
                   !.words = Append(@, word), !.half = None]

\* b = self.io.read(2), which returns k bytes.  run starts a read_message
\* only while self.running.
read_uint16(k) ==
    /\ reader.pc = "header"
    /\ reader.words = << >> => reader.running
    /\ k \in 0..Min(2, Len(stream))
    /\ stream' = SubSeq(stream, k + 1, Len(stream))
    /\ reader' = CASE k = 0 -> read_message_timeout
                   [] k = 1 -> [reader EXCEPT !.pc = "half", !.half = stream[1]]
                   [] k = 2 -> read_message_word(stream[1] + 256 * stream[2])
    /\ Ghost(0, NoCallback, << >>)
    /\ UNCHANGED << received, framed, transit >>
    /\ UNCHANGED << session_vars, send_vars, loop_vars >>

\* b1 = self.io.read(1), which returns k bytes.
read_uint16_b1(k) ==
    /\ reader.pc = "half"
    /\ k \in 0..Min(1, Len(stream))
    /\ stream' = SubSeq(stream, k + 1, Len(stream))
    /\ reader' = IF k = 0
                 THEN read_message_timeout
                 ELSE read_message_word(reader.half + 256 * stream[1])
    /\ Ghost(0, NoCallback, << >>)
    /\ UNCHANGED << received, framed, transit >>
    /\ UNCHANGED << session_vars, send_vars, loop_vars >>

\* payload = self.io.read(payload_len), which returns k bytes; read_message
\* returns Message(id, source_node, payload); run decodes it and hands it to
\* the event loop.  An exception of decode ends run.
read_payload(k) ==
    LET payload_len == reader.words[1]
        source_node == reader.words[2]
        id == reader.words[3]
        msg == Message(id, source_node, SubSeq(stream, 1, k))
    IN  /\ reader.pc = "payload"
        /\ k \in 0..Min(payload_len, Len(stream))
        /\ stream' = SubSeq(stream, k + 1, Len(stream))
        /\ IF decode_raises(msg)
           THEN /\ reader' = [reader EXCEPT !.pc = "dead"]
                /\ UNCHANGED received
           ELSE /\ reader' = [reader EXCEPT !.pc = "header", !.words = << >>]
                /\ received' = Append(received, msg)
        /\ Ghost(0, NoCallback, << >>)
        /\ UNCHANGED << framed, transit >>
        /\ UNCHANGED << session_vars, send_vars, loop_vars >>

\* self.io.read raises error, which is not a TimeoutError: except Exception as
\* error: self.comm_error = error; raise error.  run does not catch it and the
\* thread ends.
read_raises(error) ==
    /\ reader.pc \in {"header", "half", "payload"}
    /\ reader.words = << >> /\ reader.pc = "header" => reader.running
    /\ reader' = [reader EXCEPT !.pc = "dead", !.comm_error = error]
    /\ Ghost(0, NoCallback, << >>)
    /\ UNCHANGED << stream, received, framed, transit >>
    /\ UNCHANGED << session_vars, send_vars, loop_vars >>

\* What io.read(n) may return: what was asked for once it has arrived ...
FullReads(n) ==
    IF n = 0 \/ stream = << >> THEN {0}
    ELSE IF Len(stream) >= n THEN {n} ELSE {}

\* ... or a part of it, at least one byte when bytes have arrived.
ShortReads(n) ==
    IF n = 0 \/ stream = << >> THEN {0} ELSE 1..Min(n, Len(stream))

\* Messages of the robot: windows of variables and user events.
FrameIds == {ID_VARIABLES, 513}
FrameSources == {1, 65535}
FramePayloads == {<< >>, << 0, 0 >>, << 1, 0, 44, 1 >>}
Frames ==
    {msg \in {Message(id, source_node, payload) :
                id \in FrameIds, source_node \in FrameSources,
                payload \in FramePayloads} : ~decode_raises(msg)}

\* The payload length the reader waits for (0 outside the payload).
PayloadLen == IF reader.pc = "payload" THEN reader.words[1] ELSE 0

\* The transport returns the bytes of a header word together or one by one,
\* and a payload in one piece.
NextFraming ==
    \/ \E msg \in Frames : robot_sends(msg)
    \/ \E k \in ShortReads(2) : read_uint16(k)
    \/ \E k \in ShortReads(1) : read_uint16_b1(k)
    \/ \E k \in FullReads(PayloadLen) : read_payload(k)

SpecFraming == Init /\ [][NextFraming]_vars

\* The transport returns any part of what was asked for, or fails.
NextReader ==
    \/ set_on_comm_error
    \/ \E msg \in Frames : robot_sends(msg)
    \/ \E k \in ShortReads(2) : read_uint16(k)
    \/ \E k \in ShortReads(1) : read_uint16_b1(k)
    \/ \E k \in ShortReads(PayloadLen) : read_payload(k)
    \/ \E error \in Errors : read_raises(error)

SpecReader == Init /\ [][NextReader]_vars

\* l is the beginning of m.
IsPrefix(l, m) == Len(l) <= Len(m) /\ \A i \in 1..Len(l) : l[i] = m[i]

\* C15: once a read of the transport has raised an error that is not a
\* timeout, the reader thread has ended, Connection.comm_error holds the
\* error and, an on_comm_error being set, it was called.
C15_ReadErrorMarksConnection ==
    reader.comm_error \in Errors =>
        /\ reader.pc = "dead"
        /\ comm_error = reader.comm_error
        /\ on_comm_error => fired = Callback("on_comm_error", 0, FALSE)

\* C16: whatever part of the bytes asked for each read returns, the messages
\* handed to the event loop are the messages the robot sent, in order, and
\* no read error having occurred, all of them once the stream is empty and
\* the reader is between two messages.
C16_FramesReassembled ==
    /\ IsPrefix(received, framed)
    /\ (reader.comm_error \notin Errors /\ stream = << >>
        /\ reader.pc = "header" /\ reader.words = << >>) => received = framed

\* C17: the frame of a message is the length of its payload, its source and
\* its id, each as two bytes with the low byte first, followed by the
\* payload: 6 + len(payload) bytes; and the reader, given each payload in one
\* piece, hands over the messages that were framed, with their ids, sources
\* and payloads, all of them once it has emptied the stream.
C17_FramingRoundTrip ==
    /\ \A i \in 1..Len(framed) :
        LET msg == framed[i]
            bytes == serialize(msg)
        IN  /\ Len(bytes) = 6 + Len(msg.payload)
            /\ bytes[1] = Len(msg.payload) % 256
            /\ bytes[2] = Len(msg.payload) \div 256
            /\ bytes[3] = msg.source_node % 256
            /\ bytes[4] = msg.source_node \div 256
            /\ bytes[5] = msg.id % 256
            /\ bytes[6] = msg.id \div 256
            /\ SubSeq(bytes, 7, Len(bytes)) = msg.payload
    /\ reader.pc # "dead"
    /\ IsPrefix(received, framed)
    /\ \A i \in 1..Len(received) :
            /\ received[i].id = framed[i].id
            /\ received[i].source_node = framed[i].source_node
            /\ received[i].payload = framed[i].payload
    /\ (stream = << >> /\ reader.pc = "header" /\ reader.words = << >>) =>
            received = framed

\* Two frames were read back: a window of variables of source 65535 with a
\* payload of four bytes, then a user event without payload.
C17_TwoFramesReadBack ==
    /\ Len(framed) = 2
    /\ received = framed
    /\ stream = << >>
    /\ framed[1] = Message(ID_VARIABLES, 65535, << 1, 0, 44, 1 >>)
    /\ framed[2] = Message(513, 1, << >>)

(***************************************************************************)
(* Shutdown.  run_forever is running the event loop.  Two robots are       *)
(* discovered and describe their variables, which starts one refresh task  *)
(* for each; the application calls shutdown at any time.  No message is    *)
(* handled after shutdown, which asks the reader to stop, and nothing runs *)
(* on the event loop once it has been stopped.                             *)
(***************************************************************************)
\* self.terminating = True; self.input_thread.terminate()
shutdown ==
    /\ ~terminating
    /\ terminating' = TRUE
    /\ reader' = [reader EXCEPT !.running = FALSE]
    /\ Ghost(0, NoCallback, << >>)
    /\ UNCHANGED << stream, received, framed, transit, loop_stopped,
                    callback_errors >>
    /\ UNCHANGED << session_vars, send_vars >>

\* The event loop runs a handler.
loop_runs_handler(n) == ~loop_stopped /\ ~terminating /\ DispatchCatalog(n)

\* The event loop runs a refresh task whose sleep has ended.
loop_runs_refresh(t) == ~loop_stopped /\ refresh_wake(t)

NextShutdown ==
    \/ ~auto_handshake /\ handshake
    \/ shutdown
    \/ \E n \in Nodes : loop_runs_handler(n)
    \/ \E t \in 1..MaxRefresh : loop_runs_refresh(t)

SpecShutdown == Init /\ [][NextShutdown]_vars

FairShutdown ==
    SpecShutdown /\ \A t \in 1..MaxRefresh : WF_vars(loop_runs_refresh(t))

\* The refresh tasks that have not ended.
RefreshTasks == {t \in 1..MaxRefresh : refresh_tasks[t].pc # "none"}

\* C18: once shutdown was called, run_forever eventually returns, and when it
\* returns no refresh task is left that has not seen the terminating flag
\* and ended.
C18_RunForeverReturns ==
    /\ terminating ~> loop_stopped
    /\ [](loop_stopped => RefreshTasks = {})

(***************************************************************************)
(* Callbacks that raise.  Robot 1 is discovered, describes itself, sends   *)
(* its variables, events and execution states; robot 2 sends events and    *)
(* execution states.  Every callback the handlers await returns or raises. *)
(* A message is handled while the reader thread lives and the event loop   *)
(* runs.                                                                   *)
(***************************************************************************)
DispatcherRuns == reader.pc # "dead" /\ reader.running /\ ~loop_stopped

DispatchCallbacks(n) ==
    \/ \E nv \in 1..MaxDescr, nf \in 0..1 :
            RobotDescribes(n) /\ handle_DESCRIPTION(n, nv, 0, nf)
    \/ \E size \in 1..MaxSize :
            /\ RobotNamesNextVariable(n)
            /\ handle_NAMED_VARIABLE_DESCRIPTION(
                    n, VarNames[Len(remote_nodes[n].named_variables) + 1], size)
    \/ /\ RobotNamesFunction(n)
       /\ Len(remote_nodes[n].native_functions) < remote_nodes[n].num_native_fun
       /\ handle_NATIVE_FUNCTION_DESCRIPTION(n, "f")
    \/ /\ Mirrored(n)
       /\ CatalogComplete(remote_nodes[n])
       /\ handle_VARIABLES(n, 0, << 300 >>)

NextCallbacks ==
    \/ ~auto_handshake /\ handshake
    \/ \E n \in Nodes : DispatcherRuns /\ RobotAnnounces(n) /\ handle_NODE_PRESENT(n, 6)
    \/ \E n \in Solo : DispatcherRuns /\ DispatchCallbacks(n)
    \/ \E n \in Nodes : DispatcherRuns /\ handle_user_event(n)
    \/ \E n \in Nodes : DispatcherRuns /\ handle_EXECUTION_STATE_CHANGED(n)
    \/ \E n \in Nodes : ~loop_stopped /\ handle_message_resume(n)
    \/ \E n \in Nodes : ~loop_stopped /\ callback_raises(n)

SpecCallbacks == Init /\ [][NextCallbacks]_vars

C20_AddVarUntilComplete ==
    [][\A n \in Solo :
        (handled' = n /\ Mirrored(n) /\ Described(remote_nodes[n])
         /\ handle_NAMED_VARIABLE_DESCRIPTION(n, "x", 1)) =>
            LET node == remote_nodes[n]
                node1 == remote_nodes'[n]
            IN  IF Len(node.named_variables) >= node.num_named_var
                THEN /\ node1.named_variables = node.named_variables
                     /\ node1.var_offset = node.var_offset
                     /\ node1.var_total_size = node.var_total_size
                     /\ node1.var_data = node.var_data
                ELSE /\ node1.named_variables = Append(node.named_variables, "x")
                     /\ node1.var_offset["x"] = node.var_total_size
                     /\ node1.var_total_size = node.var_total_size + 1
      ]_vars

(***************************************************************************)
(* RemoteNode.data_span_for_variables.  The application asks for the span  *)
(* of a set of names of a mirror whose catalog is being described; the     *)
(* loop visits the names of the set in the order `order`.                  *)
(***************************************************************************)
\* The application calls remote_nodes[n].data_span_for_variables(variables).
RemoteNode_data_span_for_variables(n, order) ==
    /\ api.pc = "idle"
    /\ Mirrored(n)
    /\ api' = [pc |-> "data_span", node |-> n, val |-> order,
               result |-> data_span_for_variables(remote_nodes[n], order)]
    /\ Step(NoCallback, << >>)
    /\ UNCHANGED << remote_nodes, remote_node_set, auto_handshake,
                    refreshing_timeout, awaiting, refresh_tasks, life >>

\* The call has returned or raised.
RemoteNode_data_span_return ==
    /\ api.pc = "data_span"
    /\ api' = NoApi
    /\ Step(NoCallback, << >>)
    /\ UNCHANGED << remote_nodes, remote_node_set, auto_handshake,
                    refreshing_timeout, awaiting, refresh_tasks, life >>

\* The orders in which the non-empty sets of names can be visited.
Orders ==
    {order \in SeqsUpTo({"x", "y", "z"}, 3) :
        \A i, j \in 1..Len(order) : i # j => order[i] # order[j]}

NextSpan ==
    \/ ~auto_handshake /\ handshake
    \/ \E n \in Solo : DispatchCatalog(n)
    \/ \E n \in Solo, order \in Orders : RemoteNode_data_span_for_variables(n, order)
    \/ RemoteNode_data_span_return

SpecSpan == Init /\ [][NextSpan]_vars

\* C21: a call of data_span_for_variables with a non-empty set of names, all
\* of the catalog, returns (lo, hi - lo), lo the least offset of the names
\* and hi the greatest end (offset + size), in whatever order the names are
\* visited; with a name that is not in the catalog it raises.
C21_SmallestCoveringSpan ==
    [][(api.pc = "idle" /\ api'.pc = "data_span") =>
        LET node == remote_nodes[api'.node]
            S == {api'.val[i] : i \in 1..Len(api'.val)}
            result == api'.result
        IN  IF S \subseteq DOMAIN node.var_offset
            THEN /\ ~result.raised
                 /\ \A v \in S : result.offset <= node.var_offset[v]
                 /\ \E v \in S : result.offset = node.var_offset[v]
                 /\ \A v \in S : node.var_offset[v] + node.var_size[v]
                                    <= result.offset + result.length
                 /\ \E v \in S : node.var_offset[v] + node.var_size[v]
                                    = result.offset + result.length
            ELSE result.raised
      ]_vars

\* The span of {x, y} of a catalog x (2 words), y (2 words), asked for with y
\* first, is (0, 4).
C21_SpanDownwards ==
    /\ api.pc = "data_span"
    /\ api.val = << "y", "x" >>
    /\ remote_nodes[1].var_size = [x |-> 2, y |-> 2]
    /\ api.result = [raised |-> FALSE, offset |-> 0, length |-> 4]

(***************************************************************************)
(* Claims about the words of the mirror.                                   *)
(***************************************************************************)
\* C22: the words of var_data are signed 16-bit numbers, from -32768 to
\* 32767; and when the application has written -1 at offset 0 and a window
\* of VARIABLES then brings the word 65535 (-1 & 0xffff) for that offset, the
\* mirror holds -1 there again.
C22_SignedWords ==
    /\ [](\A n \in DOMAIN remote_nodes :
            \A i \in 1..Len(remote_nodes[n].var_data) :
                remote_nodes[n].var_data[i] \in (-32768)..32767)
    /\ [][\A n \in Solo :
            (/\ handled' = n
             /\ Mirrored(n)
             /\ 0 \in DOMAIN life[n].written
             /\ life[n].written[0] = -1
             /\ handle_VARIABLES(n, 0, << (-1) % 65536 >>))
            => remote_nodes'[n].var_data[1] = -1
         ]_vars

(***************************************************************************)
(* Assembler (assembler.py).  A source line is held as the regular         *)
(* expressions of assemble split it: blank, a label alone, an instruction  *)
(* (with or without a label, its arguments split at commas and blanks), or *)
(* a line none of them matches.  An argument is held as assemble hands it  *)
(* to to_code: an int when re_number matched it, else the string, as the   *)
(* tokens resolve_symbol finds in it.                                      *)
(***************************************************************************)
Lit(n) == [lit |-> TRUE, val |-> n, terms |-> << >>]
Expr(terms) == [lit |-> FALSE, val |-> 0, terms |-> terms]
Plus == [t |-> "+", name |-> "", val |-> 0]
Minus == [t |-> "-", name |-> "", val |-> 0]
Name(s) == [t |-> "name", name |-> s, val |-> 0]
Num(n) == [t |-> "num", name |-> "", val |-> n]
Sym(s) == Expr(<< Name(s) >>)

Blank == [kind |-> "blank", label |-> "", instr |-> "", args |-> << >>]
Label(l) == [kind |-> "label", label |-> l, instr |-> "", args |-> << >>]
Instr(l, name, args) == [kind |-> "instr", label |-> l, instr |-> name, args |-> args]
Malformed == [kind |-> "syntax", label |-> "", instr |-> "", args |-> << >>]

\* A value, or the exception raised instead of it.
Ok(v) == [error |-> "", val |-> v]
Raise(e) == [error |-> e, val |-> 0]

\* resolve_def: a token that is neither "+" nor "-".
resolve_def(tok, defs, required) ==
    IF ~required THEN Ok(0)
    ELSE IF tok.t = "num" THEN Ok(tok.val)
    ELSE IF tok.name \notin DOMAIN defs THEN Raise("Unknown symbol")
    ELSE Ok(defs[tok.name])

\* The while loop of resolve_symbol from token k on.
RECURSIVE resolve_terms(_, _, _, _, _, _)
resolve_terms(terms, k, val, minus, defs, required) ==
    IF k > Len(terms) THEN Ok(val)
    ELSE IF terms[k].t = "+"
    THEN resolve_terms(terms, k + 1, val, FALSE, defs, required)
    ELSE IF terms[k].t = "-"
    THEN resolve_terms(terms, k + 1, val, TRUE, defs, required)
    ELSE LET d == resolve_def(terms[k], defs, required)
         IN  IF d.error # "" THEN d
             ELSE resolve_terms(terms, k + 1,
                                IF minus THEN val - d.val ELSE val + d.val,
                                minus, defs, required)

resolve_symbol(a, defs, required) ==
    IF a.lit THEN Ok(a.val)
    ELSE resolve_terms(a.terms, 1, 0, FALSE, defs, required)

\* args[k - 1] resolved (IndexError when the line has fewer arguments).
Arg(args, k, defs, phase) ==
    IF k > Len(args) THEN Raise("IndexError")
    ELSE resolve_symbol(args[k], defs, phase = 1)

\* The instructions of self.instr that have a "code": one fixed word.
UnaryOps == << "neg", "abs", "bitnot" >>
BinaryOps == << "sl", "asr", "add", "sub", "mult", "div", "mod", "bitor",
               "bitxor", "bitand", "eq", "ne", "gt", "ge", "lt", "le",
               "or", "and" >>
IndexOf(seq, x) == CHOOSE k \in 1..Len(seq) : seq[k] = x
InSeq(seq, x) == \E k \in 1..Len(seq) : seq[k] = x
HasCode(name) ==
    name \in {"stop", "ret"} \/ InSeq(UnaryOps, name) \/ InSeq(BinaryOps, name)
instr_code(name) ==
    IF name = "stop" THEN << 0 >>                              \* 0x0000
    ELSE IF name = "ret" THEN << 57344 >>                      \* 0xe000
    ELSE IF InSeq(UnaryOps, name)
    THEN << 28672 + IndexOf(UnaryOps, name) - 1 >>             \* 0x7000..
    ELSE << 32768 + IndexOf(BinaryOps, name) - 1 >>            \* 0x8000..
\* The instructions of self.instr that have a "to_code".
HasToCode ==
    { "dc", "equ", "push.s", "push", "load", "store", "load.ind", "store.ind",
      "not", "jump", "jump.if.not", "do.jump.when.not", "dont.jump.when.not",
      "emit", "callnat", "callsub" }

\* What a to_code returns: the words, and defs as it leaves it.
Code(words, defs) == [error |-> "", code |-> words, defs |-> defs]
Fail(e, defs) == [error |-> e, code |-> << >>, defs |-> defs]
FirstError(rs) ==
    IF \E k \in 1..Len(rs) : rs[k].error # ""
    THEN rs[CHOOSE k \in 1..Len(rs) :
               rs[k].error # "" /\ \A j \in 1..(k - 1) : rs[j].error = ""].error
    ELSE ""

to_code_dc(pc, args, label, defs, phase) ==
    LET rs == [k \in 1..Len(args) |-> Arg(args, k, defs, phase)]
    IN  IF FirstError(rs) # "" THEN Fail(FirstError(rs), defs)
        ELSE Code([k \in 1..Len(args) |-> rs[k].val % 65536], defs)

to_code_equ(pc, args, label, defs, phase) ==
    LET v == Arg(args, 1, defs, phase)
    IN  IF label = "" THEN Fail("No label", defs)
        ELSE IF v.error # "" THEN Fail(v.error, defs)
        ELSE Code(<< >>, DictSet(defs, label, v.val))

\* to_code_push_s with the lower limit moved by one.
to_code_push_s_strict(pc, args, label, defs, phase) ==
    LET arg == Arg(args, 1, defs, phase)
    IN  IF arg.error # "" THEN Fail(arg.error, defs)
        ELSE IF arg.val >= 4096 \/ -arg.val >= 4096
        THEN Fail("Small integer overflow", defs)
        ELSE Code(<< 4096 + (arg.val % 4096) >>, defs)

to_code_push_s(pc, args, label, defs, phase) ==
    LET arg == Arg(args, 1, defs, phase)
    IN  IF arg.error # "" THEN Fail(arg.error, defs)
        ELSE IF arg.val >= 4096 \/ -arg.val > 4096
        THEN Fail("Small integer overflow", defs)
        ELSE Code(<< 4096 + (arg.val % 4096) >>, defs)

to_code_push(pc, args, label, defs, phase) ==
    LET arg == Arg(args, 1, defs, phase)
    IN  IF arg.error # "" THEN Fail(arg.error, defs)
        ELSE Code(<< 8192, arg.val % 65536 >>, defs)

\* load, store, callnat, callsub: a checked argument under an opcode.
to_code_checked(opcode, error, args, defs, phase) ==
    LET arg == Arg(args, 1, defs, phase)
    IN  IF arg.error # "" THEN Fail(arg.error, defs)
        ELSE IF arg.val < 0 \/ arg.val >= 4096 THEN Fail(error, defs)
        ELSE Code(<< opcode + (arg.val % 4096) >>, defs)

to_code_load(pc, args, label, defs, phase) ==
    to_code_checked(12288, "Data address out of range", args, defs, phase)

to_code_store(pc, args, label, defs, phase) ==
    to_code_checked(16384, "Data address out of range", args, defs, phase)

\* load.ind, store.ind: the checked address, then the size word.
to_code_ind(opcode, args, defs, phase) ==
    LET arg == Arg(args, 1, defs, phase)
        size_arg == Arg(args, 2, defs, phase)
    IN  IF arg.error # "" THEN Fail(arg.error, defs)
        ELSE IF arg.val < 0 \/ arg.val >= 4096
        THEN Fail("Data address out of range", defs)
        ELSE IF size_arg.error # "" THEN Fail(size_arg.error, defs)
        ELSE Code(<< opcode + (arg.val % 4096), size_arg.val % 65536 >>, defs)

to_code_load_ind(pc, args, label, defs, phase) ==
    to_code_ind(20480, args, defs, phase)

to_code_store_ind(pc, args, label, defs, phase) ==
    to_code_ind(24576, args, defs, phase)

to_code_not(pc, args, label, defs, phase) ==
    Fail("Unary not", defs)

\* to_code_jump with the target taken as an absolute address.
to_code_jump_absolute(pc, args, label, defs, phase) ==
    LET arg == Arg(args, 1, defs, phase)
    IN  IF arg.error # "" THEN Fail(arg.error, defs)
        ELSE Code(<< 36864 + (arg.val % 4096) >>, defs)

to_code_jump(pc, args, label, defs, phase) ==
    LET arg == Arg(args, 1, defs, phase)
    IN  IF arg.error # "" THEN Fail(arg.error, defs)
        ELSE Code(<< 36864 + ((arg.val - pc) % 4096) >>, defs)

\* args[0] as a key of self.instr: the string itself, "" when there is none.
TestOp(args) ==
    IF Len(args) >= 1 /\ ~args[1].lit /\ Len(args[1].terms) = 1
       /\ args[1].terms[1].t = "name"
    THEN args[1].terms[1].name
    ELSE ""

\* jump.if.not, do.jump.when.not, dont.jump.when.not.
to_code_cond(opcode, pc, args, defs, phase) ==
    LET arg == Arg(args, 2, defs, phase)
    IN  IF Len(args) = 0 THEN Fail("IndexError", defs)
        ELSE IF ~InSeq(BinaryOps, TestOp(args)) THEN Fail("Unknown op", defs)
        ELSE IF arg.error # "" THEN Fail(arg.error, defs)
        ELSE Code(<< opcode + (instr_code(TestOp(args))[1] % 256),
                     (arg.val - pc) % 65536 >>, defs)

to_code_jump_if_not(pc, args, label, defs, phase) ==
    to_code_cond(40960, pc, args, defs, phase)

to_code_do_jump_when_not(pc, args, label, defs, phase) ==
    to_code_cond(41216, pc, args, defs, phase)

to_code_dont_jump_when_not(pc, args, label, defs, phase) ==
    to_code_cond(41728, pc, args, defs, phase)

to_code_emit(pc, args, label, defs, phase) ==
    LET id == Arg(args, 1, defs, phase)
        addr == Arg(args, 2, defs, phase)
        size == Arg(args, 3, defs, phase)
    IN  IF id.error # "" THEN Fail(id.error, defs)
        ELSE IF id.val < 0 \/ id.val >= 4096
        THEN Fail("Event id out of range", defs)
        ELSE IF addr.error # "" THEN Fail(addr.error, defs)
        ELSE IF size.error # "" THEN Fail(size.error, defs)
        ELSE Code(<< 45056 + (id.val % 4096), addr.val % 65536,
                     size.val % 65536 >>, defs)

to_code_callnat(pc, args, label, defs, phase) ==
    to_code_checked(49152, "Native call id out of range", args, defs, phase)

to_code_callsub(pc, args, label, defs, phase) ==
    to_code_checked(53248, "Subroutine address out of range", args, defs, phase)

\* instr["to_code"](len(bytecode), args, label, defs, phase, i + 1)
to_code(name, pc, args, label, defs, phase) ==
    CASE name = "dc" -> to_code_dc(pc, args, label, defs, phase)
      [] name = "equ" -> to_code_equ(pc, args, label, defs, phase)
      [] name = "push.s" -> to_code_push_s(pc, args, label, defs, phase)
      [] name = "push" -> to_code_push(pc, args, label, defs, phase)
      [] name = "load" -> to_code_load(pc, args, label, defs, phase)
      [] name = "store" -> to_code_store(pc, args, label, defs, phase)
      [] name = "load.ind" -> to_code_load_ind(pc, args, label, defs, phase)
      [] name = "store.ind" -> to_code_store_ind(pc, args, label, defs, phase)
      [] name = "not" -> to_code_not(pc, args, label, defs, phase)
      [] name = "jump" -> to_code_jump(pc, args, label, defs, phase)
      [] name = "jump.if.not" -> to_code_jump_if_not(pc, args, label, defs, phase)
      [] name = "do.jump.when.not" ->
            to_code_do_jump_when_not(pc, args, label, defs, phase)
      [] name = "dont.jump.when.not" ->
            to_code_dont_jump_when_not(pc, args, label, defs, phase)
      [] name = "emit" -> to_code_emit(pc, args, label, defs, phase)
      [] name = "callnat" -> to_code_callnat(pc, args, label, defs, phase)
      [] name = "callsub" -> to_code_callsub(pc, args, label, defs, phase)

\* The names a sequence holds.
Range(seq) == { seq[k] : k \in 1..Len(seq) }
LastIndexOf(seq, x) ==
    CHOOSE k \in 1..Len(seq) : seq[k] = x /\ \A j \in (k + 1)..Len(seq) : seq[j] # x

\* Assembler.node_definitions: the dict is filled in this order, a later
\* assignment to the same key replacing the earlier one.
node_definitions(node, max_var_size) ==
    LET variables == Range(node.named_variables)
        events == { "_ev." \o e : e \in Range(node.local_events) }
        functions == { "_nf." \o f : f \in Range(node.native_functions) }
        event_of(x) == CHOOSE e \in Range(node.local_events) : x = "_ev." \o e
        fun_of(x) == CHOOSE f \in Range(node.native_functions) : x = "_nf." \o f
    IN  [ x \in variables \cup {"_userdata", "_topdata", "_ev.init"}
                \cup events \cup functions |->
            IF x \in functions
            THEN LastIndexOf(node.native_functions, fun_of(x)) - 1
            ELSE IF x \in events
            THEN 65534 - (LastIndexOf(node.local_events, event_of(x)) - 1)
            ELSE IF x = "_ev.init" THEN 65535
            ELSE IF x = "_topdata" THEN max_var_size
            ELSE IF x = "_userdata" THEN node.var_total_size
            ELSE node.var_offset[x] ]

\* The body of `for i, line in enumerate(lines)` for the line a.src[a.i + 1]:
\* the locals after it, or the exception that leaves assemble.
\* assemble_raise swallowing the exception: the line is left out.
assemble_skip(a, error) == [a EXCEPT !.i = @ + 1]

assemble_raise(a, error) == [a EXCEPT !.pc = "raised", !.error = error]

assemble_instr(a, line) ==
    LET label == IF line.label # "" THEN line.label ELSE a.label
        defs == IF line.label # ""
                THEN DictSet(a.defs, line.label, Len(a.bytecode))
                ELSE a.defs
        r == IF HasCode(line.instr) THEN Code(instr_code(line.instr), defs)
             ELSE to_code(line.instr, Len(a.bytecode), line.args, label, defs,
                          a.phase)
        bytecode == a.bytecode \o r.code
    IN  IF ~HasCode(line.instr) /\ line.instr \notin HasToCode
        THEN assemble_raise(a, "Unknown instruction")
        ELSE IF r.error # "" THEN assemble_raise(a, r.error)
        ELSE [a EXCEPT !.i = @ + 1,
                       !.bytecode = bytecode,
                       !.defs = r.defs,
                       !.label = IF label # "" /\ r.defs[label] # Len(bytecode)
                                 THEN "" ELSE label]

\* assemble_body with a label alone bound one word further.
assemble_body_label_after(a) ==
    LET line == a.src[a.i + 1]
    IN  CASE line.kind = "blank" -> [a EXCEPT !.i = @ + 1]
          [] line.kind = "label" ->
                [a EXCEPT !.i = @ + 1,
                          !.label = line.label,
                          !.defs = DictSet(@, line.label, Len(a.bytecode) + 1)]
          [] line.kind = "instr" -> assemble_instr(a, line)
          [] line.kind = "syntax" -> assemble_raise(a, "Syntax error")

assemble_body(a) ==
    LET line == a.src[a.i + 1]
    IN  CASE line.kind = "blank" -> [a EXCEPT !.i = @ + 1]
          [] line.kind = "label" ->
                [a EXCEPT !.i = @ + 1,
                          !.label = line.label,
                          !.defs = DictSet(@, line.label, Len(a.bytecode))]
          [] line.kind = "instr" -> assemble_instr(a, line)
          [] line.kind = "syntax" -> assemble_raise(a, "Syntax error")

\* The node the Assembler is constructed for: x is at offset 269.
AsmNode ==
    [add_var(add_var(RemoteNode(1, 5), "acc", 269), "x", 1)
        EXCEPT !.local_events = << "button" >>,
               !.native_functions = << "math.fill" >>]

AsmFrame ==
    UNCHANGED << session_vars, send_vars, reader_vars, loop_vars,
                 io_written, handled, fired, refreshing_data_coverage,
                 refreshing_data_span, input_lock, flows >>

\* Assembler(remote_node, src).assemble() up to the first pass.
Assembler_assemble(src) ==
    /\ asm.pc = "idle"
    /\ asm' = [NoAssembler EXCEPT !.pc = "run", !.src = src,
                                  !.defs = node_definitions(AsmNode, None)]
    /\ AsmFrame

assemble_line ==
    /\ asm.pc = "run"
    /\ asm.i < Len(asm.src)
    /\ asm' = assemble_body(asm)
    /\ AsmFrame

\* for phase in (0, 1): the second pass starts over with the defs of the first.
assemble_next_phase ==
    /\ asm.pc = "run"
    /\ asm.i = Len(asm.src)
    /\ asm.phase = 0
    /\ asm' = [asm EXCEPT !.phase = 1, !.i = 0, !.bytecode = << >>, !.label = ""]
    /\ AsmFrame

\* return bytecode
assemble_return ==
    /\ asm.pc = "run"
    /\ asm.i = Len(asm.src)
    /\ asm.phase = 1
    /\ asm' = [asm EXCEPT !.pc = "returned"]
    /\ AsmFrame

(***************************************************************************)
(* Sources handed to the Assembler.                                        *)
(***************************************************************************)
\* The instructions whose first argument must lie in 0..0xfff, with their
\* opcodes and the number of arguments they read.
Checked == { "load", "store", "load.ind", "store.ind", "emit", "callnat", "callsub" }
Opcode(name) ==
    CASE name = "push.s" -> 4096        \* 0x1000
      [] name = "load" -> 12288         \* 0x3000
      [] name = "store" -> 16384        \* 0x4000
      [] name = "load.ind" -> 20480     \* 0x5000
      [] name = "store.ind" -> 24576    \* 0x6000
      [] name = "emit" -> 45056         \* 0xb000
      [] name = "callnat" -> 49152      \* 0xc000
      [] name = "callsub" -> 53248      \* 0xd000
Arity(name) ==
    CASE name \in {"load.ind", "store.ind"} -> 2
      [] name = "emit" -> 3
      [] OTHER -> 1
ArgsOf(name, a) == SubSeq(<< a, Lit(2), Lit(3) >>, 1, Arity(name))

\* Arguments around the limits of the 12-bit fields.
Edges == { -4097, -4096, -1, 0, 1, 4095, 4096 }
\* One instruction with a literal argument, or with a symbol bound by equ.
SourcesRange ==
    { << Instr("", m, ArgsOf(m, Lit(n))) >> :
        m \in Checked \cup {"push.s"}, n \in Edges }
    \cup
    { << Instr("v", "equ", << Lit(n) >>), Instr("", m, ArgsOf(m, Sym("v"))) >> :
        m \in Checked \cup {"push.s"}, n \in Edges }

\* Programs of up to MaxLines lines with labels and jumps to them.
MaxLines == 3
RECURSIVE Programs(_, _)
Programs(lines, n) ==
    IF n = 0 THEN { << >> }
    ELSE LET shorter == Programs(lines, n - 1)
         IN  shorter \cup { Append(p, line) : p \in shorter, line \in lines }
CondJumps == { "jump.if.not", "do.jump.when.not", "dont.jump.when.not" }
JumpLines ==
    { Instr("", "dc", << Sym("end") >>),
      Instr("l", "push.s", << Lit(1) >>),
      Instr("", "stop", << >>),
      Label("l"),
      Label("end"),
      Instr("", "jump", << Sym("l") >>),
      Instr("", "jump.if.not", << Sym("eq"), Sym("l") >>),
      Instr("", "do.jump.when.not", << Sym("lt"), Sym("end") >>),
      Instr("", "dont.jump.when.not", << Sym("ge"), Sym("l") >>) }
\* dc end / l: push.s 1 / jump l / end:
JumpBack ==
    << Instr("", "dc", << Sym("end") >>),
       Instr("l", "push.s", << Lit(1) >>),
       Instr("", "jump", << Sym("l") >>),
       Label("end") >>
SourcesJump == Programs(JumpLines, MaxLines) \cup { JumpBack }

\* Programs that bind symbols with equ and push them.
EquLines ==
    { Instr("e", "equ", << Lit(7) >>),
      Instr("e", "equ", << Expr(<< Name("x"), Plus, Num(1) >>) >>),
      Instr("f", "equ", << Expr(<< Name("_userdata"), Minus, Name("x") >>) >>),
      Instr("", "equ", << Lit(5) >>),
      Label("g"),
      Instr("", "push", << Sym("e") >>),
      Instr("", "push", << Sym("f") >>),
      Instr("", "push", << Sym("g") >>) }
SourcesEqu == Programs(EquLines, MaxLines)

\* dc end_toc / dc _ev.init, init / end_toc: / init: push.s 0 / store x / stop
EventTable ==
    << Instr("", "dc", << Sym("end_toc") >>),
       Instr("", "dc", << Sym("_ev.init"), Sym("init") >>),
       Label("end_toc"),
       Instr("init", "push.s", << Lit(0) >>),
       Instr("", "store", << Sym("x") >>),
       Instr("", "stop", << >>) >>

\* Programs with lines assemble cannot translate.
FaultyLines ==
    { Malformed,
      Blank,
      Instr("", "foo", << Lit(1) >>),
      Instr("", "not", << >>),
      Instr("", "push", << Sym("nope") >>),
      Instr("", "load", << Lit(4096) >>),
      Instr("", "jump.if.not", << Sym("stop"), Lit(0) >>),
      Instr("", "stop", << >>),
      Instr("", "push.s", << Lit(1) >>) }
SourcesFaulty == Programs(FaultyLines, MaxLines)

Sources ==
    SourcesRange \cup SourcesJump \cup SourcesEqu \cup SourcesFaulty
        \cup { EventTable }

NextAssembler ==
    \/ \E src \in Sources : Assembler_assemble(src)
    \/ assemble_line
    \/ assemble_next_phase
    \/ assemble_return

SpecAssembler == Init /\ [][NextAssembler]_vars

\* The line assemble is about to read, and the value of its first argument
\* when it is a number or, in the second pass, a defined symbol.
AtInstr(names) ==
    /\ asm.pc = "run"
    /\ asm.i < Len(asm.src)
    /\ asm.src[asm.i + 1].kind = "instr"
    /\ asm.src[asm.i + 1].instr \in names
NextLine == asm.src[asm.i + 1]
IsSym(a) == ~a.lit /\ Len(a.terms) = 1 /\ a.terms[1].t = "name"
Valued(a) == a.lit \/ (IsSym(a) /\ asm.phase = 1 /\ a.terms[1].name \in DOMAIN asm.defs)
ValueOf(a) == IF a.lit THEN a.val ELSE asm.defs[a.terms[1].name]
Emitted == SubSeq(asm'.bytecode, Len(asm.bytecode) + 1, Len(asm'.bytecode))

\* C23: push.s n assembles to the single word 0x1000 | (n & 0xfff) exactly
\* when -0x1000 <= n < 0x1000 and raises the small integer overflow
\* otherwise; load, store, load.ind, store.ind, callnat, callsub and emit
\* accept a first argument a exactly when 0 <= a < 0x1000, encode it as
\* opcode | (a & 0xfff) in their first word, and raise otherwise.
C23_ArgumentRanges ==
    [][ /\ (AtInstr({"push.s"}) /\ Valued(NextLine.args[1])) =>
            LET n == ValueOf(NextLine.args[1])
            IN  IF -4096 <= n /\ n < 4096
                THEN asm'.pc = "run" /\ Emitted = << 4096 + (n % 4096) >>
                ELSE asm'.pc = "raised" /\ asm'.error = "Small integer overflow"
        /\ (AtInstr(Checked) /\ Valued(NextLine.args[1])) =>
            LET a == ValueOf(NextLine.args[1])
            IN  IF 0 <= a /\ a < 4096
                THEN /\ asm'.pc = "run"
                     /\ Len(Emitted) = Arity(NextLine.instr)
                     /\ Emitted[1] = Opcode(NextLine.instr) + (a % 4096)
                ELSE /\ asm'.pc = "raised"
                     /\ asm'.error \in { "Data address out of range",
                                         "Event id out of range",
                                         "Native call id out of range",
                                         "Subroutine address out of range" }
      ]_vars

\* push.s -0x1000 was assembled to 0x1000.
C23_LowestSmallInteger ==
    /\ asm.pc = "returned"
    /\ asm.src = << Instr("", "push.s", << Lit(-4096) >>) >>
    /\ asm.bytecode = << 4096 >>

\* C24: jump t emits 0x9000 | ((t - pc) & 0xfff), pc being the word index of
\* the jump itself, so that the jump of `dc end / l: push.s 1 / jump l /
\* end:` is 0x9fff; jump.if.not, do.jump.when.not and dont.jump.when.not
\* (with a comparison or an operation of the VM as their test) emit
\* (t - pc) & 0xffff as their second word, pc being the index of their first
\* word.
C24_RelativeJumps ==
    /\ [](asm.pc = "returned" /\ asm.src = JumpBack => asm.bytecode[3] = 40959)
    /\ [][ /\ (AtInstr({"jump"}) /\ Valued(NextLine.args[1])) =>
               LET t == ValueOf(NextLine.args[1])
                   pc == Len(asm.bytecode)
               IN  /\ asm'.pc = "run"
                   /\ Emitted = << 36864 + ((t - pc) % 4096) >>
           /\ (/\ AtInstr(CondJumps)
               /\ InSeq(BinaryOps, TestOp(NextLine.args))
               /\ Valued(NextLine.args[2])) =>
               LET t == ValueOf(NextLine.args[2])
                   pc == Len(asm.bytecode)
               IN  /\ asm'.pc = "run"
                   /\ Len(Emitted) = 2
                   /\ Emitted[2] = (t - pc) % 65536
         ]_vars

\* The backward jump of the example was assembled.
C24_JumpBackAssembled ==
    /\ asm.pc = "returned"
    /\ asm.src = JumpBack
    /\ asm.bytecode = << 3, 4097, 40959 >>

\* The words a line adds to the bytecode, and the index of its first word.
WordsOf(line) ==
    IF line.kind # "instr" THEN 0
    ELSE IF HasCode(line.instr) THEN 1
    ELSE CASE line.instr = "dc" -> Len(line.args)
           [] line.instr = "equ" -> 0
           [] line.instr \in {"push", "load.ind", "store.ind"} \cup CondJumps -> 2
           [] line.instr = "emit" -> 3
           [] OTHER -> 1
RECURSIVE WordsBefore(_, _)
WordsBefore(src, j) ==
    IF j <= 1 THEN 0 ELSE WordsBefore(src, j - 1) + WordsOf(src[j - 1])

\* The lines `label: equ v` of a source that bind s, and the value of a v
\* that is a number or an expression over the symbols of the node.
EquLinesOf(src, s) ==
    { j \in 1..Len(src) :
        src[j].kind = "instr" /\ src[j].instr = "equ" /\ src[j].label = s }
ExprValue(a) == resolve_symbol(a, node_definitions(AsmNode, None), TRUE).val

\* C25: every reference to a symbol bound by `label: equ v` assembles to v,
\* whether the reference precedes or follows the equ line and whether v is a
\* number or an expression over other symbols; equ itself emits no word.
C25_EquBindsValue ==
    asm.pc = "returned" =>
        \A j \in 1..Len(asm.src) :
            LET line == asm.src[j]
                s == line.args[1].terms[1].name
            IN  (/\ line.kind = "instr"
                 /\ line.instr = "push"
                 /\ Cardinality(EquLinesOf(asm.src, s)) = 1) =>
                    LET e == CHOOSE k \in EquLinesOf(asm.src, s) : TRUE
                    IN  /\ Len(asm.bytecode) >= WordsBefore(asm.src, j) + 2
                        /\ asm.bytecode[WordsBefore(asm.src, j) + 2]
                             = ExprValue(asm.src[e].args[1]) % 65536

\* The lines of a source that carry the label s, alone or before an
\* instruction.
LabelLinesOf(src, s) ==
    { j \in 1..Len(src) : src[j].kind \in {"label", "instr"} /\ src[j].label = s }
NoEqu(src) == \A j \in 1..Len(src) : src[j].instr # "equ"

\* C26: a label on the line of an instruction is the index of the first word
\* of that instruction and a label alone is the index of the next word
\* emitted; a reference that precedes the label resolves to the same index
\* as one that follows it; the event table of the example assembles to
\* [3, 0xffff, 3, 0x1000, 0x410d, 0x0000].
C26_LabelPositions ==
    asm.pc = "returned" =>
        /\ asm.src = EventTable =>
              asm.bytecode = << 3, 65535, 3, 4096, 16653, 0 >>
        /\ NoEqu(asm.src) =>
              \A j \in 1..Len(asm.src) :
                  LET line == asm.src[j]
                      s == line.args[Len(line.args)].terms[1].name
                      pc == WordsBefore(asm.src, j)
                  IN  (/\ line.instr \in {"dc", "jump"} \cup CondJumps
                       /\ Cardinality(LabelLinesOf(asm.src, s)) = 1) =>
                          LET l == CHOOSE k \in LabelLinesOf(asm.src, s) : TRUE
                              t == WordsBefore(asm.src, l)
                          IN  /\ asm.defs[s] = t
                              /\ line.instr = "dc" =>
                                    asm.bytecode[pc + Len(line.args)] = t
                              /\ line.instr = "jump" =>
                                    asm.bytecode[pc + 1] = 36864 + ((t - pc) % 4096)
                              /\ line.instr \in CondJumps =>
                                    asm.bytecode[pc + 2] = (t - pc) % 65536

\* The event table of the example was assembled: end_toc and init are
\* referred to before the lines that bind them.
C26_EventTableAssembled ==
    /\ asm.pc = "returned"
    /\ asm.src = EventTable
    /\ asm.defs["end_toc"] = 3
    /\ asm.defs["init"] = 3

\* The arguments of a line that are resolved as values, and the names in
\* them.
ValueArgs(line) ==
    IF line.kind # "instr" \/ HasCode(line.instr) THEN << >>
    ELSE IF line.instr \in CondJumps THEN Tail(line.args)
    ELSE line.args
NamesIn(a) ==
    { a.terms[n].name : n \in { n \in 1..Len(a.terms) : a.terms[n].t = "name" } }
NamesOf(line) ==
    UNION { NamesIn(ValueArgs(line)[k]) : k \in 1..Len(ValueArgs(line)) }
\* A line with an unknown mnemonic, with `not`, that is malformed, or with a
\* number out of the range of its instruction.
Untranslatable(line) ==
    \/ line.kind = "syntax"
    \/ /\ line.kind = "instr"
       /\ \/ ~HasCode(line.instr) /\ line.instr \notin HasToCode
          \/ line.instr = "not"
          \/ /\ line.instr \in Checked
             /\ line.args[1].lit
             /\ (line.args[1].val < 0 \/ line.args[1].val >= 4096)
          \/ /\ line.instr = "push.s"
             /\ line.args[1].lit
             /\ (line.args[1].val < -4096 \/ line.args[1].val >= 4096)
          \/ line.instr \in CondJumps /\ ~InSeq(BinaryOps, TestOp(line.args))

\* C27: assemble returns the complete bytecode or raises.  A name that is
\* never defined raises in the second pass only; an unknown mnemonic, `not`,
\* a malformed line and an argument out of range raise; what is returned has
\* the words of every line of the source.
C27_AllOrNothing ==
    /\ asm.pc = "returned" =>
          /\ \A j \in 1..Len(asm.src) :
                /\ ~Untranslatable(asm.src[j])
                /\ NamesOf(asm.src[j]) \subseteq DOMAIN asm.defs
          /\ Len(asm.bytecode) = WordsBefore(asm.src, Len(asm.src) + 1)
    /\ (asm.pc = "raised" /\ asm.error = "Unknown symbol") => asm.phase = 1
    /\ (asm.pc = "run" /\ asm.phase = 1) =>
          \A j \in 1..Len(asm.src) : ~Untranslatable(asm.src[j])

\* `stop / push nope`: the first pass went through, the second raised at
\* the unknown name after the word of stop.
C27_UnknownNameRaised ==
    /\ asm.pc = "raised"
    /\ asm.error = "Unknown symbol"
    /\ asm.src = << Instr("", "stop", << >>), Instr("", "push", << Sym("nope") >>) >>
    /\ asm.phase = 1
    /\ asm.bytecode = << 0 >>

(***************************************************************************)
(* Invariants of the mirrors.                                              *)
(***************************************************************************)
\* C28: in every state and for every node of remote_nodes, handshake_done
\* holds if and only if all native functions were described
\* (len(native_functions) == num_native_fun), the catalog of variables is
\* complete (len(named_variables) == num_named_var) and the node is in the
\* active set.
C28_HandshakeDoneIff ==
    \A n \in DOMAIN remote_nodes :
        remote_nodes[n].handshake_done <=>
            /\ Len(remote_nodes[n].native_functions) = remote_nodes[n].num_native_fun
            /\ Len(remote_nodes[n].named_variables) = remote_nodes[n].num_named_var
            /\ n \in remote_node_set

\* C29: for every node, var_data is empty until the catalog of variables is
\* complete and has var_total_size words from then on, whatever VARIABLES
\* windows, writes and descriptors come.
C29_VarDataLength ==
    \A n \in DOMAIN remote_nodes :
        IF CatalogComplete(remote_nodes[n])
        THEN Len(remote_nodes[n].var_data) = remote_nodes[n].var_total_size
        ELSE remote_nodes[n].var_data = << >>

(***************************************************************************)
(* The catalog of variables.  The robot describes as many variables as it  *)
(* declared, under names that may repeat.                                  *)
(***************************************************************************)
RobotNamesAnyVariable(n) ==
    /\ Mirrored(n)
    /\ Described(remote_nodes[n])
    /\ Len(remote_nodes[n].named_variables) < remote_nodes[n].num_named_var

DispatchNames(n) ==
    \/ RobotAnnounces(n) /\ handle_NODE_PRESENT(n, 6)
    \/ \E nv \in 1..MaxDescr :
            RobotDescribes(n) /\ handle_DESCRIPTION(n, nv, 0, 0)
    \/ \E name \in {"x", "y"}, size \in 1..MaxSize :
            /\ RobotNamesAnyVariable(n)
            /\ handle_NAMED_VARIABLE_DESCRIPTION(n, name, size)

NextCatalog ==
    \/ ~auto_handshake /\ handshake
    \/ \E n \in Solo : DispatchNames(n)
    \/ \E n \in Solo, offset \in 0..MaxOffset, length \in 1..MaxChunk :
            Connection_get_variables(n, offset, length)
    \/ \E t \in 1..MaxRefresh : refresh_wake(t)

SpecCatalog == InitMirror /\ [][NextCatalog]_vars

\* The sizes recorded for the first k entries of named_variables.
RECURSIVE SizesBefore(_, _)
SizesBefore(node, k) ==
    IF k <= 1 THEN 0
    ELSE SizesBefore(node, k - 1) + node.var_size[node.named_variables[k - 1]]

\* C30: in every state of every node, var_total_size is the sum of
\* var_size[v] over the entries of named_variables and the offset of each
\* variable is the sum of the sizes of the variables announced before it,
\* also when a name is announced twice.
C30_CatalogSums ==
    \A n \in DOMAIN remote_nodes :
        LET node == remote_nodes[n]
        IN  /\ node.var_total_size
                 = SizesBefore(node, Len(node.named_variables) + 1)
            /\ \A k \in 1..Len(node.named_variables) :
                  node.var_offset[node.named_variables[k]] = SizesBefore(node, k)

(***************************************************************************)
(* Refresh tasks.                                                          *)
(***************************************************************************)
\* The do_refresh tasks of the event loop that were created for node n.
TasksOf(n) ==
    { t \in 1..MaxRefresh :
        refresh_tasks[t].pc # "none" /\ refresh_tasks[t].source_node = n }

\* C31: at no time do two refresh tasks exist for the same node, also after
\* NAMED_VARIABLE_DESCRIPTION messages beyond the declared count and after
\* the node was removed and discovered again.
C31_OneRefreshTaskPerNode ==
    \A n \in Nodes : Cardinality(TasksOf(n)) <= 1

(***************************************************************************)
(* Refreshing with a coverage.  Two robots describe catalogs whose         *)
(* variables have different sizes; the application sets and changes the    *)
(* set of variables the refresh tasks ask for.                             *)
(***************************************************************************)
Coverages == { NoCoverage, Coverage(<< "x" >>), Coverage(<< "y" >>) }

NextCoverage ==
    \/ ~auto_handshake /\ handshake
    \/ \E n \in Nodes : DispatchCatalog(n)
    \/ \E coverage \in Coverages : set_refreshing_coverage(coverage)
    \/ \E t \in 1..MaxRefresh : refresh_wake(t)

SpecCoverage == InitMirror /\ [][NextCoverage]_vars

\* The chunk a period of the refresh task of `node` has to ask for.
RefreshChunk(node) ==
    IF refreshing_data_coverage.set
    THEN data_span_for_variables(node, refreshing_data_coverage.order)
    ELSE [raised |-> FALSE, offset |-> 0, length |-> node.var_total_size]

\* C32: with a refreshing rate set, each period of the refresh task of a node
\* sends one GET_VARIABLES to that node, for (0, var_total_size) without a
\* coverage and else for data_span_for_variables(coverage) of the catalog of
\* that node, and sets the expected_var_end of the node to offset + length.
C32_RefreshAsksForCoverage ==
    [][ \A t \in 1..MaxRefresh :
          LET n == refresh_tasks[t].source_node
              chunk == RefreshChunk(remote_nodes[n])
          IN  (/\ refresh_wake(t)
               /\ refreshing_timeout # None
               /\ n \in DOMAIN remote_nodes
               /\ ~chunk.raised) =>
                  /\ io_written' = get_variables_msg(n, chunk.offset, chunk.length)
                  /\ remote_nodes'[n].expected_var_end = chunk.offset + chunk.length
      ]_vars

(***************************************************************************)
(* The input lock.  Every handler of handle_message, every period of a     *)
(* refresh task and every call of the API is a path: the sequence of what  *)
(* it does with the input lock, with the mirror and with the application,  *)
(* in the order of the source.  The handler and the refresh task are       *)
(* coroutines of the event loop: one of them runs until it awaits a        *)
(* callback, and the other may run while that callback is suspended.  The  *)
(* API is called from the thread of the application, or from inside a      *)
(* callback on the thread of the event loop.                               *)
(***************************************************************************)
Op(op, line) == [op |-> op, line |-> line]

\* with self.input_lock: <the accesses at `lines`>
WithInputLock(line, lines) ==
    << Op("lock", line) >>
        \o [i \in 1 .. Len(lines) |-> Op("access", lines[i])]
        \o << Op("unlock", lines[Len(lines)]) >>

\* ID_EXECUTION_STATE_CHANGED and the id of a user event
ID_EXECUTION_STATE_CHANGED == 36874
ID_USER_EVENT == 0

\* A handler that awaits its callback before it leaves the block of the lock.
handle_message_path_callback_locked(id) ==
    IF id = ID_VARIABLES
    THEN << Op("lock", 481), Op("access", 482), Op("access", 483),
            Op("access", 484), Op("callback", 485), Op("unlock", 485),
            Op("access", 509) >>
    ELSE << Op("callback", 504), Op("access", 509) >>

\* handle_message(msg) for msg.id = id, every branch taken as far as it goes
handle_message_path(id) ==
    (CASE id = ID_NODE_PRESENT ->
            WithInputLock(406, << 407, 408 >>) \o << Op("send", 413) >>
       [] id = ID_DEVICE_INFO -> WithInputLock(417, << 418 >>)
       [] id = ID_DESCRIPTION -> WithInputLock(436, << 437, 443 >>)
       [] id = ID_NAMED_VARIABLE_DESCRIPTION ->
            WithInputLock(445, << 446, 447, 448, 450 >>)
       [] id = ID_VARIABLES ->
            WithInputLock(481, << 482, 483 >>)
                \o << Op("access", 484), Op("callback", 485) >>
       [] id = ID_NATIVE_FUNCTION_DESCRIPTION ->
            WithInputLock(487, << 488, 489 >>)
                \o << Op("access", 490), Op("access", 492),
                      Op("callback", 494) >>
       [] id = ID_LOCAL_EVENT_DESCRIPTION -> WithInputLock(499, << 500, 501 >>)
       [] id = ID_EXECUTION_STATE_CHANGED -> << Op("callback", 504) >>
       [] OTHER -> << Op("callback", 508) >>)
        \o << Op("access", 509) >>

\* get_variables(target_node_id): get_target_node_var_total_size, then the
\* assignment of expected_var_end and the send
get_variables_path ==
    WithInputLock(535, << 536 >>) \o << Op("access", 577), Op("send", 578) >>

\* One period of do_refresh in which a node is found silent.
do_refresh_path ==
    get_variables_path
        \o WithInputLock(469, << 470, 471 >>)
        \o << Op("callback", 476), Op("access", 477) >>

get_var_path == << Op("access", 609) >> \o WithInputLock(610, << 611 >>)

get_var_array_path == << Op("access", 616) >> \o WithInputLock(618, << 619 >>)

set_var_path ==
    << Op("access", 626) >> \o WithInputLock(627, << 628 >>)
        \o << Op("access", 629), Op("send", 590) >>

set_var_array_path ==
    << Op("access", 634) >> \o WithInputLock(635, << 636 >>)
        \o << Op("access", 637), Op("send", 590) >>

MessageIds ==
    { ID_NODE_PRESENT, ID_DEVICE_INFO, ID_DESCRIPTION,
      ID_NAMED_VARIABLE_DESCRIPTION, ID_VARIABLES,
      ID_NATIVE_FUNCTION_DESCRIPTION, ID_LOCAL_EVENT_DESCRIPTION,
      ID_EXECUTION_STATE_CHANGED, ID_USER_EVENT }

ApiPaths ==
    { get_variables_path, get_var_path, get_var_array_path, set_var_path,
      set_var_array_path }

\* The thread a flow runs on.
ThreadOf(f) == IF f = "user" THEN "user" ELSE "loop"

Running(f) == flows[f].path # << >>

\* The flow is in a call of the API made by the callback it awaits.
InApi(f) == flows[f].inner # << >>

\* The step the flow stands before.
Here(f) ==
    IF InApi(f) THEN flows[f].inner[flows[f].j] ELSE flows[f].path[flows[f].k]

\* The flow is suspended in the callback it awaits.
Awaiting(f) == Running(f) /\ ~InApi(f) /\ Here(f).op = "callback"

\* The thread of flow f holds the input lock: a flow that runs on it took the
\* lock and has not left the block.
HoldsInputLock(f) ==
    \E g \in Flows : input_lock = g /\ ThreadOf(g) = ThreadOf(f)

\* The event loop runs one coroutine at a time, up to its next await.
Scheduled(f) ==
    \A g \in Flows \ {f} :
        ThreadOf(g) = ThreadOf(f) => (~Running(g) \/ Awaiting(g))

Advance(f) ==
    flows' = [flows EXCEPT ![f] =
                IF InApi(f)
                THEN IF @.j = Len(@.inner)
                     THEN [@ EXCEPT !.inner = << >>, !.j = 1]
                     ELSE [@ EXCEPT !.j = @ + 1]
                ELSE IF @.k = Len(@.path)
                     THEN NoFlow
                     ELSE [@ EXCEPT !.k = @ + 1]]

LockFrame ==
    UNCHANGED << session_vars, send_vars, reader_vars, loop_vars, asm,
                 io_written, handled, fired, refreshing_data_coverage,
                 refreshing_data_span >>

\* The event loop dispatches a message, a refresh task wakes up, the
\* application calls the API.
flow_begin(f, path) ==
    /\ ~Running(f)
    /\ Scheduled(f)
    /\ flows' = [flows EXCEPT ![f] = [NoFlow EXCEPT !.path = path]]
    /\ UNCHANGED input_lock
    /\ LockFrame

\* with self.input_lock: the thread waits until the lock is free.
input_lock_enter(f) ==
    /\ Running(f) /\ Scheduled(f)
    /\ Here(f).op = "lock"
    /\ Lock_acquirable(input_lock)
    /\ input_lock' = f
    /\ Advance(f)
    /\ LockFrame

\* the end of the block of with self.input_lock
input_lock_exit(f) ==
    /\ Running(f) /\ Scheduled(f)
    /\ Here(f).op = "unlock"
    /\ input_lock' = Unlocked
    /\ Advance(f)
    /\ LockFrame

\* a read or a write of the mirror, or a send
flow_step(f) ==
    /\ Running(f) /\ Scheduled(f)
    /\ Here(f).op \in {"access", "send"}
    /\ Advance(f)
    /\ UNCHANGED input_lock
    /\ LockFrame

\* The callback calls the API (get_var, set_var, ...) on the thread of the
\* flow that awaits it.
callback_calls(f, path) ==
    /\ Awaiting(f) /\ Scheduled(f)
    /\ flows' = [flows EXCEPT ![f].inner = path, ![f].j = 1]
    /\ UNCHANGED input_lock
    /\ LockFrame

\* the callback returns
callback_returns(f) ==
    /\ Awaiting(f) /\ Scheduled(f)
    /\ Advance(f)
    /\ UNCHANGED input_lock
    /\ LockFrame

NextLocks ==
    \/ \E id \in MessageIds : flow_begin("handler", handle_message_path(id))
    \/ flow_begin("refresh", do_refresh_path)
    \/ \E path \in ApiPaths : flow_begin("user", path)
    \/ \E f \in Flows : input_lock_enter(f)
    \/ \E f \in Flows : input_lock_exit(f)
    \/ \E f \in Flows : flow_step(f)
    \/ \E f \in Flows, path \in ApiPaths : callback_calls(f, path)
    \/ \E f \in Flows : callback_returns(f)

SpecLocks == Init /\ [][NextLocks]_vars

\* C33: no callback of the application (on_connection_changed,
\* on_variables_received, on_execution_state_changed, on_user_event) is entered
\* while the thread that invokes it holds the input lock, so that a call of
\* get_var or set_var made by the callback never waits for a lock its own
\* caller holds.
C33_CallbacksOutsideInputLock ==
    \A f \in Flows :
        Running(f) =>
            /\ Awaiting(f) => input_lock # f
            /\ Here(f).op = "lock" => ~HoldsInputLock(f)

\* on_variables_received called get_var, which holds the input lock.
C33_CallbackHoldsLock ==
    /\ InApi("handler")
    /\ flows["handler"].path[flows["handler"].k] = Op("callback", 485)
    /\ flows["handler"].inner = get_var_path
    /\ Here("handler") = Op("access", 611)
    /\ input_lock = "handler"

\* C34: every read and every write of the mirror (the remote_nodes map, the
\* catalogs, var_data, expected_var_end, handshake_done, last_msg_time) made by
\* a handler, by a refresh task or by a call of the API from another thread is
\* made while the flow that makes it holds the input lock, so that no two of
\* them overlap.
C34_MirrorAccessUnderInputLock ==
    \A f \in Flows :
        (Running(f) /\ Here(f).op = "access") => input_lock = f

(***************************************************************************)
(* The set of active nodes and the mirrors.                                *)
(***************************************************************************)
\* C35: every node id of the active set has a mirror, in every state: also
\* while the callback of a disconnection is suspended and further messages of
\* the node are dispatched before its mirror is deleted.
C35_ActiveNodesMirrored == remote_node_set \subseteq DOMAIN remote_nodes

(***************************************************************************)
(* Discovery after handshake().  Every robot goes on answering LIST_NODES: *)
(* the reader thread hands each NODE_PRESENT it reads to the event loop,   *)
(* which runs its handler.                                                 *)
(***************************************************************************)
FairnessDiscover ==
    \A n \in Nodes :
        WF_vars(\E version \in Versions : handle_NODE_PRESENT(n, version))

FairDiscover == SpecDiscover /\ FairnessDiscover

\* C36: once handshake() has set auto_handshake, every node that answers
\* LIST_NODES with NODE_PRESENT is eventually sent GET_NODE_DESCRIPTION, also a
\* node whose mirror was created by a NODE_PRESENT dispatched before
\* handshake() was called.
C36_AnsweringNodeDescribed ==
    \A n \in Nodes : auto_handshake ~> life[n].requested

(***************************************************************************)
(* set_bytecode and the output lock.  The application sends a bytecode of  *)
(* one, two or three chunks; each iteration of the loop of set_bytecode    *)
(* calls send, which takes the output lock for its message alone.  On the  *)
(* event loop a refresh task asks for the variables of the node.  No write *)
(* raises, and a call of send is one step: the lock keeps the bytes of a   *)
(* message together.                                                       *)
(***************************************************************************)
MaxLog == 4   \* calls of send by set_bytecode and by the refresh task

\* send(msg) on thread th: the lock is taken, the bytes are written, the lock
\* is released.
send_whole(th, msg) ==
    /\ senders[th].pc = "idle"
    /\ Len(send_log) < MaxLog
    /\ Lock_acquirable(output_lock)
    /\ wire' = wire \o serialize(msg)
    /\ send_log' = Append(send_log,
                          [by |-> th, msg |-> msg,
                           written |-> Len(serialize(msg)), error |-> None])
    /\ senders' = [senders EXCEPT ![th] =
                     [NoSender EXCEPT !.msg = msg,
                                      !.pos = Len(serialize(msg)),
                                      !.result = "returned"]]
    /\ UNCHANGED << output_lock, comm_error, on_comm_error >>

\* One iteration of while i < size: self.send(msg); i += size_chunk
set_bytecode_iteration ==
    LET sent == set_bytecode_send(api.node, api.val, api.address, api.i)
    IN  /\ api.pc = "set_bytecode"
        /\ api.i < Len(api.val)
        /\ send_whole("user", sent[1])
        /\ api' = [api EXCEPT
                      !.i = @ + Min(Len(api.val) - api.i, BytecodeChunk),
                      !.sent = @ \o sent]
        /\ Ghost(0, NoCallback, sent)
        /\ UNCHANGED << remote_nodes, remote_node_set, auto_handshake,
                        refreshing_timeout, awaiting, refresh_tasks, life >>
        /\ UNCHANGED << reader_vars, loop_vars >>

\* while i < size: the loop has ended, set_bytecode returns
set_bytecode_return ==
    /\ api.pc = "set_bytecode"
    /\ api.i >= Len(api.val)
    /\ Connection_set_bytecode_loop

\* get_variables(node, 0, 1) of a refresh task
refresh_send ==
    LET sent == get_variables_msg(1, 0, 1)
    IN  /\ send_whole("loop", sent[1])
        /\ Ghost(0, NoCallback, sent)
        /\ UNCHANGED << session_vars, reader_vars, loop_vars >>

NextBytecodeSend ==
    \/ \E len \in {1, BytecodeChunk + 1, 2 * BytecodeChunk + 1},
          address \in {0, 7} :
            Connection_set_bytecode(1, Bytecode(len), address)
    \/ set_bytecode_iteration
    \/ set_bytecode_return
    \/ refresh_send

SpecBytecodeSend == Init /\ [][NextBytecodeSend]_vars

\* The entries of the log written by the call of set_bytecode that is under
\* way: the last ones of the application's thread, as many as the call has
\* sent.
ChunkEntries ==
    LET mine == { i \in 1..Len(send_log) : send_log[i].by = "user" }
    IN  { i \in mine : Cardinality({ j \in mine : j > i }) < Len(api.sent) }

\* C37: the SET_BYTECODE messages of one call of set_bytecode reach the
\* transport one after the other: no message of another thread or task is
\* written between two chunks of the call.
C37_ChunksContiguous ==
    api.pc = "set_bytecode" =>
        \A i, k \in ChunkEntries :
            \A j \in i..k : send_log[j].by = "user"

(***************************************************************************)
(* Read timeouts.  The bytes of a frame reach the host in pieces, and a    *)
(* read of a header word that finds no byte times out.  The payload is     *)
(* read in one piece, after it has arrived.                                *)
(***************************************************************************)
\* The robot sends a message, whose bytes are on their way.
robot_sends_slowly(msg) ==
    /\ Len(framed) < MaxFrames
    /\ transit' = transit \o serialize(msg)
    /\ framed' = Append(framed, msg)
    /\ Ghost(0, NoCallback, << >>)
    /\ UNCHANGED << stream, reader, received >>
    /\ UNCHANGED << session_vars, send_vars, loop_vars >>

\* The next k bytes reach the host.
bytes_arrive(k) ==
    /\ k \in 1..Len(transit)
    /\ stream' = stream \o SubSeq(transit, 1, k)
    /\ transit' = SubSeq(transit, k + 1, Len(transit))
    /\ Ghost(0, NoCallback, << >>)
    /\ UNCHANGED << reader, received, framed >>
    /\ UNCHANGED << session_vars, send_vars, loop_vars >>

NextTimeout ==
    \/ \E msg \in Frames : robot_sends_slowly(msg)
    \/ \E k \in 1..Len(transit) : bytes_arrive(k)
    \/ \E k \in ShortReads(2) : read_uint16(k)
    \/ \E k \in ShortReads(1) : read_uint16_b1(k)
    \/ Len(stream) >= PayloadLen /\ read_payload(PayloadLen)

SpecTimeout == Init /\ [][NextTimeout]_vars

\* C38: a read timeout does not desynchronise the framing: the header bytes
\* of a frame read before the timeout (the length word, the source word, or
\* the first byte of a word) are kept, and the frame is decoded intact once
\* the rest of its bytes has arrived: the messages handed to the event loop
\* are the messages the robot sent, in order, all of them once every byte has
\* arrived and was read.
C38_TimeoutKeepsFraming ==
    /\ reader.pc # "dead"
    /\ IsPrefix(received, framed)
    /\ (transit = << >> /\ stream = << >> /\ reader.pc = "header"
        /\ reader.words = << >>) => received = framed

(***************************************************************************)
(* Malformed frames.  The robot also sends frames whose payload is shorter *)
(* than the layout of their id: a window of variables without its offset,  *)
(* a user event with half a word.  Every read returns what was asked for.  *)
(***************************************************************************)
MalformedFrames ==
    { Message(ID_VARIABLES, 1, << >>), Message(513, 1, << 7 >>) }

WellFormed(msg) == ~decode_raises(msg)

NextMalformed ==
    \/ \E msg \in Frames \cup MalformedFrames : robot_sends(msg)
    \/ \E k \in FullReads(2) : read_uint16(k)
    \/ \E k \in FullReads(PayloadLen) : read_payload(k)

SpecMalformed == Init /\ [][NextMalformed]_vars

\* C39: a malformed frame does not end the reader thread: the frames that
\* follow it are still read, decoded and handed to the event loop, so that the
\* well-formed messages the robot sent are all handed over once the stream
\* is empty and the reader is between two messages.
C39_MalformedFrameSkipped ==
    /\ reader.pc # "dead"
    /\ (stream = << >> /\ reader.pc = "header" /\ reader.words = << >>) =>
            received = SelectSeq(framed, WellFormed)

(***************************************************************************)
(* on_comm_error and the output lock.                                      *)
(***************************************************************************)
\* The threads whose call of send is in on_comm_error: the except clause
\* has called it and raise error has not been reached.
InCommErrorCallback ==
    { th \in Threads : senders[th].pc = "raise" /\ senders[th].calls > 0 }

\* C40: on_comm_error is called while the output lock is not held, so that a
\* send made by the callback can take the lock and complete instead of
\* waiting for ever for a lock that its own thread holds.
C40_CommErrorOutsideOutputLock ==
    InCommErrorCallback # {} => Lock_acquirable(output_lock)

====
